---------------------------- MODULE Spec2Model ----------------------------
(***************************************************************************)
(* Model of the task scheduling and adaptive execution engine:             *)
(*   - ClusterManager / Cluster / ProxyStateManager / TaskHandler          *)
(*       (app/execution/managers/cluster_executor.py)                      *)
(*   - ProfileTask / ProxyClusterState (app/models/execution_models.py)    *)
(*   - PriorityTaskQueue (app/execution/queue_manager.py) and the          *)
(*       ProfileExecutor loop (app/execution/profile_executor.py)          *)
(*                                                                         *)
(* Time and delays are integers in milliseconds (1.0 s = 1000); a product  *)
(* with a float factor is the factor in percent, rounded down to the       *)
(* millisecond.                                                            *)
(***************************************************************************)
EXTENDS Integers, Sequences, FiniteSets, TLC

(***************************************************************************)
(* Bounds of the model                                                     *)
(***************************************************************************)
MaxTasks == 2
MaxClusters == 3
MaxShutdowns == 1
MaxSubmits == 2
\* a ProxyClusterState alone: the successes of non-bypass tasks recorded in it,
\* and the other outcomes
MaxSuccesses == 141
MaxRecords == 5
\* ... and the same two where the runs of successes are followed
MaxRunSuccesses == 151
MaxRunRecords == 2
\* the tasks of one profile's PriorityTaskQueue
MaxPTasks == 3
\* the results recorded in one proxy's ProxyDelayState of the DelayManager
MaxGovRecords == 1
\* the steps of time the DelayManager's model takes
MaxGovTicks == 1
\* the PriorityTaskQueues the ExecutionManager creates
MaxQueues == 3

(***************************************************************************)
(* Program constants                                                       *)
(***************************************************************************)
BASE_DELAY == 1000
MAX_DELAY == 16000
DELAY_DECREASE_FACTOR == 95
DELAY_DECREASE_THRESHOLD == 10
DELAY_INCREASE_RATE_LIMIT == 200
DELAY_INCREASE_CONNECTION == 150
DELAY_INCREASE_GENERAL == 120
MIN_DELAY_FACTOR == 50
HEALTH_CHECK_DELAY == 30000
RATE_LIMIT_RECHECK_DELAY == 60000
STOP_TIMEOUT == 30000
WORKER_ERROR_PAUSE == 1000
MAX_ATTEMPTS == 3

\* DelayManager.get_delay_for_profile: the least delay returned, the cap for a
\* CRITICAL task, the multiplier of a priority the config does not list and
\* the spacing used without a task
GOV_MIN_DELAY == 100
GOV_CRITICAL_MAX_DELAY == 500
GOV_DEFAULT_MULTIPLIER == 110
GOV_DEFAULT_SPACING == 2000
\* record_request_result: the factors for CRITICAL/HIGH successes, CRITICAL and
\* BACKGROUND failures, rate_limit and timeout errors
GOV_FAST_REDUCTION == 120
GOV_CRITICAL_INCREASE == 120
GOV_BACKGROUND_INCREASE == 150
GOV_RATE_LIMIT_INCREASE == 200
GOV_TIMEOUT_INCREASE == 130

\* ExecutionManager.__init__: _max_profiles_per_proxy
MAX_PROFILES_PER_PROXY == 5

\* STOP_TASK = StopTaskSentinel(): the item that tells a worker to stop
STOP_TASK == 0
\* None for an Optional[datetime]
NoTime == -1
\* TaskPriority.CRITICAL .. TaskPriority.BACKGROUND
CRITICAL == 1
NORMAL == 3
BACKGROUND == 5

TaskIds == 1..MaxTasks
ClusterIds == 1..MaxClusters
\* proxy_manager.all_proxy_ids, in list order
AllProxyIds == <<"A", "B">>
ProxyIds == {AllProxyIds[i] : i \in 1..Len(AllProxyIds)}
\* the keys _clusters can get: a proxy id, or None when a task or an
\* assignment carries no proxy id
ClusterKeys == ProxyIds \cup {"None"}
\* task.proxy_id as the caller leaves it: a proxy id, None, or never set
TaskProxyIds == ProxyIds \cup {"None", "unset"}
ProfileIds == {"p1", "p2", "p3"}
\* the timeout given to execute_task: None (NoTime), 0, half a second, a minute
Timeouts == {NoTime, 0, 500, 60000}
\* the profile_ids lists given to assign_profiles_to_proxy
BulkProfileIds ==
    {<<>>} \cup {<<p>> : p \in ProfileIds}
           \cup {<<p, q>> : p \in ProfileIds, q \in ProfileIds}
Priorities == {CRITICAL, NORMAL}
\* what a handler call ends with: a success, or a failure (a returned
\* {success: False, error} or a raised exception) whose text is of one class
Outcomes == {"success", "rate", "conn", "both", "generic"}

Min(a, b) == IF a <= b THEN a ELSE b
Max(a, b) == IF a >= b THEN a ELSE b
\* x * factor for a float factor given in percent
Times(x, pct) == (x * pct) \div 100

\* In the Cluster model every instant (a wake-up time, a deadline,
\* rate_limit_until) is kept as the time left until it, so datetime.now() is 0;
\* an instant that is reached stays at 0
Now == 0

(***************************************************************************)
(* State                                                                   *)
(***************************************************************************)
VARIABLES
    clusters,          \* ClusterManager._clusters: proxy id -> Cluster (0: no entry)
    profile_to_proxy,  \* ClusterManager._profile_to_proxy ("None": no entry)
    nclusters,         \* number of Cluster objects constructed so far
    cluster,           \* the Cluster objects: proxy_id, _task_queue, _worker_task, stop()
    state,             \* Cluster.state (ProxyClusterState) of each Cluster object
    task,              \* the ProfileTask objects
    shutdown,          \* ClusterManager.shutdown(): its position and its stop tasks
    mlast,             \* the last assign call: its arguments and what it returned
    ecall,             \* the execute_task call made for each task: position, timeout
    wlast,             \* the writes of the last step to a ProxyClusterState: by whom, lock held
    pq,                \* a PriorityTaskQueue: _heap and _task_registry
    uq,                \* QueueManager._urgent_queue, a PriorityTaskQueue too
    ptask,             \* the tasks of the PriorityTaskQueue
    pexec,             \* ProfileExecutor._execute_profile: position, completed_tasks
    dstate,            \* a ProxyClusterState driven by ProxyStateManager alone
    dwake,             \* the time the worker of that state still sleeps
    dlast,             \* the last outcome recorded in dstate, and the state before it
    drun,              \* the run of successes recorded in dstate last
    gov,               \* DelayManager: one proxy's ProxyDelayState, the time since the
                       \* last task of each priority, and the last delay it returned
    em                 \* ExecutionManager: _proxy_profiles, the queues registered and
                       \* read, _global_stats, and its last call with the state before

mgrVars == <<clusters, profile_to_proxy, nclusters, cluster, state, task, shutdown,
            mlast, ecall, wlast>>
pqVars == <<pq, uq, ptask, pexec>>
delayVars == <<dstate, dwake, dlast, drun>>
govVars == <<gov>>
emVars == <<em>>
vars == <<clusters, profile_to_proxy, nclusters, cluster, state, task, shutdown,
          mlast, ecall, wlast, pq, uq, ptask, pexec, dstate, dwake, dlast, drun, gov, em>>

(***************************************************************************)
(* ProfileTask ordering and the heap of asyncio.PriorityQueue (heapq)      *)
(***************************************************************************)
\* created_at = datetime.now() at construction: tasks are numbered in the
\* order they are constructed
CreatedAt(t) == t

\* StopTaskSentinel against a ProfileTask: the sentinel goes to the end of
\* the queue, after every task
SentinelLt(a, b) == IF a # STOP_TASK /\ b = STOP_TASK THEN "true" ELSE "false"

\* ProfileTask.__lt__: "raise" is the TypeError of '<' between two members
\* of the plain Enum TaskPriority
TaskLt(ta, tb, a, b) ==
    IF ta.priority # tb.priority THEN "raise"
    ELSE IF CreatedAt(a) < CreatedAt(b) THEN "true" ELSE "false"

\* a < b for two queue items (tk: the task objects)
Lt(tk, a, b) ==
    IF a = STOP_TASK \/ b = STOP_TASK THEN SentinelLt(a, b)
    ELSE TaskLt(tk[a], tk[b], a, b)

\* positions are 0-based as in heapq; h[i + 1] is heap[i]
Swap(h, i, j) == [h EXCEPT ![i + 1] = h[j + 1], ![j + 1] = h[i + 1]]

\* heapq _siftdown: move heap[pos] up while it is less than its parent; a
\* comparison that raises leaves the list as it is at that moment
RECURSIVE SiftDown(_, _, _, _)
SiftDown(tk, h, startpos, pos) ==
    IF pos <= startpos THEN [heap |-> h, err |-> FALSE]
    ELSE LET parentpos == (pos - 1) \div 2
             c == Lt(tk, h[pos + 1], h[parentpos + 1])
         IN  IF c = "raise" THEN [heap |-> h, err |-> TRUE]
             ELSE IF c = "false" THEN [heap |-> h, err |-> FALSE]
             ELSE SiftDown(tk, Swap(h, pos, parentpos), startpos, parentpos)

\* heapq _siftup: bubble the smaller child up until a leaf, then _siftdown
RECURSIVE SiftUp(_, _, _, _)
SiftUp(tk, h, startpos, pos) ==
    LET endpos == Len(h)
        limit == endpos \div 2
    IN  IF pos >= limit THEN SiftDown(tk, h, startpos, pos)
        ELSE LET childpos == 2 * pos + 1
                 c == IF childpos + 1 < endpos
                      THEN Lt(tk, h[childpos + 1], h[childpos + 2])
                      ELSE "true"
             IN  IF c = "raise" THEN [heap |-> h, err |-> TRUE]
                 ELSE LET cp == IF c = "true" THEN childpos ELSE childpos + 1
                      IN  SiftUp(tk, Swap(h, cp, pos), startpos, cp)

\* heapq.heappush as PriorityQueue._put calls it: the item is appended, then
\* sifted; when a comparison raises the item stays in the list
HeapPush(tk, h, item) == SiftDown(tk, Append(h, item), 0, Len(h))

\* heapq.heappop as PriorityQueue._get calls it, on a non-empty heap: when a
\* comparison raises, the item that was at the root is no longer in the list
HeapPop(tk, h) ==
    LET n == Len(h)
        lastelt == h[n]
        rest == SubSeq(h, 1, n - 1)
    IN  IF n = 1 THEN [heap |-> rest, item |-> lastelt, err |-> FALSE]
        ELSE LET r == SiftUp(tk, [rest EXCEPT ![1] = lastelt], 0, 0)
             IN  [heap |-> r.heap, item |-> rest[1], err |-> r.err]

Items(h) == {h[i] : i \in 1..Len(h)}

(***************************************************************************)
(* ProxyClusterState, TaskDelayCalculator, ProxyStateManager               *)
(***************************************************************************)
\* ProxyClusterState(proxy_id, []) with the dataclass defaults
NewState == [active_profiles |-> {},
             current_delay |-> BASE_DELAY,
             base_delay |-> BASE_DELAY,
             success_count |-> 0,
             error_count |-> 0,
             rate_limit_until |-> NoTime,
             is_healthy |-> TRUE]

\* TaskDelayCalculator._has_active_rate_limit
HasActiveRateLimit(s, t) == s.rate_limit_until # NoTime /\ t < s.rate_limit_until

\* TaskDelayCalculator._calculate_rate_limit_delay
CalculateRateLimitDelay(s, t) == s.rate_limit_until - t

\* calculate_delay with the bypass branch taken for every task
CalculateDelayBaseOnly(s, bypass, t) == s.base_delay

\* TaskDelayCalculator.calculate_delay
CalculateDelay(s, bypass, t) ==
    IF bypass THEN s.base_delay
    ELSE IF HasActiveRateLimit(s, t)
         THEN Max(s.current_delay, CalculateRateLimitDelay(s, t))
         ELSE s.current_delay

\* _should_decrease_delay with twice the threshold
ShouldDecreaseDelayTwenty(s) == s.success_count % (2 * DELAY_DECREASE_THRESHOLD) = 0

\* ProxyStateManager._should_decrease_delay
ShouldDecreaseDelay(s) == s.success_count % DELAY_DECREASE_THRESHOLD = 0

\* _decrease_delay without its lower limit
DecreaseDelayNoFloor(s) ==
    [s EXCEPT !.current_delay = Times(s.current_delay, DELAY_DECREASE_FACTOR)]

\* ProxyStateManager._decrease_delay
DecreaseDelay(s) ==
    [s EXCEPT !.current_delay =
        Max(Times(s.current_delay, DELAY_DECREASE_FACTOR),
            Times(s.base_delay, MIN_DELAY_FACTOR))]

\* ProxyStateManager._handle_success
HandleSuccess(s, bypass) ==
    LET s1 == [s EXCEPT !.success_count = s.success_count + 1]
    IN  IF ~bypass /\ ShouldDecreaseDelay(s1) THEN DecreaseDelay(s1) ELSE s1

\* ProxyStateManager._is_rate_limit_error / _is_connection_error on the class
\* of the error text: "rate" holds a rate-limit keyword only, "conn" a
\* connection keyword only, "both" a keyword of either list, "generic" none
\* (an empty text included)
IsRateLimitError(cls) == cls \in {"rate", "both"}
IsConnectionError(cls) == cls \in {"conn", "both"}

\* _handle_rate_limit_error that sets no rate_limit_until
HandleRateLimitErrorNoDeadline(s, t) ==
    [s EXCEPT !.current_delay =
        Min(Times(s.current_delay, DELAY_INCREASE_RATE_LIMIT), MAX_DELAY)]

\* _handle_rate_limit_error without MAX_DELAY
HandleRateLimitErrorUncapped(s, t) ==
    LET d == Times(s.current_delay, DELAY_INCREASE_RATE_LIMIT)
    IN  [s EXCEPT !.current_delay = d, !.rate_limit_until = t + d]

\* ProxyStateManager._handle_rate_limit_error
HandleRateLimitError(s, t) ==
    LET d == Min(Times(s.current_delay, DELAY_INCREASE_RATE_LIMIT), MAX_DELAY)
    IN  [s EXCEPT !.current_delay = d, !.rate_limit_until = t + d]

\* _handle_connection_error that sets rate_limit_until as well
HandleConnectionErrorWithDeadline(s) ==
    LET d == Min(Times(s.current_delay, DELAY_INCREASE_CONNECTION), MAX_DELAY)
    IN  [s EXCEPT !.current_delay = d, !.is_healthy = FALSE,
                  !.rate_limit_until = Now + d]

\* ProxyStateManager._handle_connection_error
HandleConnectionError(s) ==
    [s EXCEPT !.current_delay =
                  Min(Times(s.current_delay, DELAY_INCREASE_CONNECTION), MAX_DELAY),
              !.is_healthy = FALSE]

\* ProxyStateManager._handle_general_error
HandleGeneralError(s) ==
    [s EXCEPT !.current_delay =
                  Min(Times(s.current_delay, DELAY_INCREASE_GENERAL), MAX_DELAY)]

\* _adjust_delay_on_error that tests for a connection error first
AdjustDelayOnErrorConnectionFirst(s, cls, t) ==
    IF IsConnectionError(cls) THEN HandleConnectionError(s)
    ELSE IF IsRateLimitError(cls) THEN HandleRateLimitError(s, t)
    ELSE HandleGeneralError(s)

\* ProxyStateManager._adjust_delay_on_error
AdjustDelayOnError(s, cls, t) ==
    IF IsRateLimitError(cls) THEN HandleRateLimitError(s, t)
    ELSE IF IsConnectionError(cls) THEN HandleConnectionError(s)
    ELSE HandleGeneralError(s)

\* _handle_failure that adjusts the delay for every task
HandleFailureNoBypass(s, bypass, cls, t) ==
    AdjustDelayOnError([s EXCEPT !.error_count = s.error_count + 1], cls, t)

\* ProxyStateManager._handle_failure
HandleFailure(s, bypass, cls, t) ==
    LET s1 == [s EXCEPT !.error_count = s.error_count + 1]
    IN  IF ~bypass THEN AdjustDelayOnError(s1, cls, t)
        ELSE IF IsConnectionError(cls) THEN [s1 EXCEPT !.is_healthy = FALSE]
        ELSE s1

\* ProxyStateManager.update_state (last_request_time is not modelled: nothing
\* reads it but get_stats)
UpdateState(s, bypass, outcome, t) ==
    IF outcome = "success" THEN HandleSuccess(s, bypass)
    ELSE HandleFailure(s, bypass, outcome, t)

\* Cluster._is_rate_limited
IsRateLimited(s, bypass, t) ==
    ~bypass /\ s.rate_limit_until # NoTime /\ t < s.rate_limit_until


(***************************************************************************)
(* ProfileTask and its completion handle (result_future)                   *)
(***************************************************************************)
\* a ProfileTask the caller has not constructed yet
NoTask == [submits |-> 0, profile_id |-> "p1", proxy_id |-> "None", priority |-> NORMAL,
           bypass |-> FALSE, has_handler |-> TRUE,
           status |-> "pending", attempts |-> 0,
           future |-> "none", futures |-> 0, error |-> "", invalid |-> FALSE]

\* `task.result_future and not task.result_future.done()`
FutureOpen(tr) == tr.future = "pending"

\* Future.set_result / Future.set_exception: on a future that is done they
\* raise InvalidStateError and leave the future as it is
FutureSet(tr, how, err) ==
    IF tr.future = "pending"
    THEN [tr EXCEPT !.future = how, !.error = err]
    ELSE [tr EXCEPT !.invalid = TRUE]

\* ClusterManager._ensure_future
EnsureFuture(tr) ==
    IF tr.future = "none"
    THEN [tr EXCEPT !.future = "pending", !.futures = tr.futures + 1]
    ELSE tr

\* ProfileTask.mark_started
MarkStarted(tr) == [tr EXCEPT !.status = "processing", !.attempts = tr.attempts + 1]

\* ProfileTask.can_retry
CanRetry(tr) == tr.attempts < MAX_ATTEMPTS /\ tr.status = "failed"

\* mark_completed without the done() test
MarkCompletedUnguarded(tr) == FutureSet([tr EXCEPT !.status = "completed"], "result", "")

\* ProfileTask.mark_completed
MarkCompleted(tr) ==
    LET t1 == [tr EXCEPT !.status = "completed"]
    IN  IF FutureOpen(t1) THEN FutureSet(t1, "result", "") ELSE t1

\* ProfileTask.mark_failed
MarkFailed(tr, err) ==
    LET t1 == [tr EXCEPT !.status = "failed"]
    IN  IF FutureOpen(t1) THEN FutureSet(t1, "exception", err) ELSE t1

\* _handle_task_result that resolves the handle of a success only
HandleTaskResultOfSuccess(tr, outcome, err) ==
    IF FutureOpen(tr) /\ outcome = "success" THEN FutureSet(tr, "result", "") ELSE tr

\* Cluster._handle_task_result, the part that resolves the handle
HandleTaskResult(tr, outcome, err) ==
    IF FutureOpen(tr)
    THEN IF outcome = "success" THEN FutureSet(tr, "result", "")
         ELSE FutureSet(tr, "exception", err)
    ELSE tr

\* Cluster._should_clear_task
ShouldClearTask(tk, item) == item # STOP_TASK /\ FutureOpen(tk[item])

\* Cluster.clear_queue: get_nowait until the queue is empty; a TypeError of
\* heappop is not a QueueEmpty and ends the loop with the rest left queued
RECURSIVE ClearQueue(_, _)
ClearQueue(tk, h) ==
    IF h = <<>> THEN [heap |-> h, task |-> tk]
    ELSE LET p == HeapPop(tk, h)
         IN  IF p.err THEN [heap |-> p.heap, task |-> tk]
             ELSE IF ShouldClearTask(tk, p.item)
                  THEN ClearQueue([tk EXCEPT ![p.item] =
                                      FutureSet(tk[p.item], "exception", "stopped")],
                                  p.heap)
                  ELSE ClearQueue(tk, p.heap)

(***************************************************************************)
(* Cluster objects                                                         *)
(***************************************************************************)
\* a Cluster object that is not constructed yet
NoCluster == [proxy_id |-> "None", queue |-> <<>>, unfinished |-> 0,
              worker |-> "none", wtask |-> 0, wake |-> NoTime,
              stop |-> "none", stop_deadline |-> NoTime]

\* Cluster.__init__ followed by Cluster.start: the worker loop waits in get()
NewCluster(proxy_id) == [NoCluster EXCEPT !.proxy_id = proxy_id, !.worker = "get"]

Sleeping == {"delay", "rl_sleep", "health_sleep", "err_sleep"}
\* `self._worker_task and not self._worker_task.done()`
WorkerAlive(cl) == cl.worker \in {"get", "handler"} \cup Sleeping

(***************************************************************************)
(* PriorityTaskQueue (queue_manager.py) and the ProfileExecutor loop        *)
(***************************************************************************)
PTaskIds == 1..MaxPTasks
\* add_task_to_profile sends CRITICAL tasks to the urgent queue; a profile's
\* queue holds the others
PQPriorities == {NORMAL, BACKGROUND}

\* a task of the profile that is not constructed yet
NoPTask == [made |-> FALSE, priority |-> NORMAL, dependencies |-> {},
            has_handler |-> TRUE, dispatched |-> 0,
            future |-> "none", cancel |-> "none",
            profile_id |-> "p1", taken_by |-> "none"]

\* PriorityTaskQueue.__init__
NewQueue == [heap |-> <<>>, registry |-> {}]

\* start_profile: ProfileExecutionState(completed_tasks=set()) and the loop of
\* _execute_profile waiting in task_queue.get
NewExecution == [pc |-> "get", task |-> 0, completed_tasks |-> {}]

\* ProfileTask.can_execute(completed_tasks): every dependency is in the set
\* (scheduled_at is never set here)
CanExecute(tr, completed_tasks) == tr.dependencies \subseteq completed_tasks

\* PriorityTaskQueue.put: register, then heappush (a TypeError of heappush
\* reaches the caller; the task is registered and in the list already)
QueuePut(q, tk, t) ==
    [heap |-> HeapPush(tk, q.heap, t).heap, registry |-> q.registry \cup {t}]

\* get, `while self._heap`: heappop everything, partition the registered tasks
\* by can_execute(set()); p is what heappop gave
RECURSIVE Drain(_, _, _, _, _)
\* the drain without the test of the registry
DrainStepUnregistered(tk, p, registry, available, unavailable) ==
    IF p.err
    THEN [err |-> TRUE, heap |-> p.heap,
          available |-> available, unavailable |-> unavailable]
    ELSE IF CanExecute(tk[p.item], {})
         THEN Drain(tk, p.heap, registry, Append(available, p.item), unavailable)
         ELSE Drain(tk, p.heap, registry, available, Append(unavailable, p.item))

DrainStep(tk, p, registry, available, unavailable) ==
    IF p.err
    THEN [err |-> TRUE, heap |-> p.heap,
          available |-> available, unavailable |-> unavailable]
    ELSE IF p.item \notin registry
         THEN Drain(tk, p.heap, registry, available, unavailable)
         ELSE IF CanExecute(tk[p.item], {})
              THEN Drain(tk, p.heap, registry, Append(available, p.item), unavailable)
              ELSE Drain(tk, p.heap, registry, available, Append(unavailable, p.item))

Drain(tk, h, registry, available, unavailable) ==
    IF h = <<>>
    THEN [err |-> FALSE, heap |-> h, available |-> available, unavailable |-> unavailable]
    ELSE DrainStep(tk, HeapPop(tk, h), registry, available, unavailable)

\* get, `for task in ...: heapq.heappush(self._heap, task)`: the loop ends at
\* the first TypeError
RECURSIVE PushAll(_, _, _)
PushAll(tk, h, tasks) ==
    IF tasks = <<>> THEN [err |-> FALSE, heap |-> h]
    ELSE LET p == HeapPush(tk, h, Head(tasks))
         IN  IF p.err THEN [err |-> TRUE, heap |-> p.heap]
             ELSE PushAll(tk, p.heap, Tail(tasks))

\* the position of task t in the sorted list: the tasks before it
Rank(tk, tasks, t) ==
    Cardinality({i \in 1..Len(tasks) : Lt(tk, tasks[i], t) = "true"}) + 1

\* available_tasks.sort(): list.sort compares with __lt__, which raises as soon
\* as two tasks of different priority meet
SortTasks(tk, tasks) ==
    IF \E i, j \in 1..Len(tasks) : Lt(tk, tasks[i], tasks[j]) = "raise"
    THEN [err |-> TRUE, tasks |-> tasks]
    ELSE [err |-> FALSE,
          tasks |-> [k \in 1..Len(tasks) |->
                        CHOOSE t \in Items(tasks) : Rank(tk, tasks, t) = k]]

\* get after the drain, from `if available_tasks` on: u is the heap with the
\* unavailable tasks pushed back, a the sorted available tasks
QueueSelect(q, tk, u, a) ==
    IF a.tasks = <<>> THEN [err |-> FALSE, queue |-> [q EXCEPT !.heap = u.heap], selected |-> 0]
    ELSE IF a.err THEN [err |-> TRUE, queue |-> [q EXCEPT !.heap = u.heap], selected |-> 0]
    ELSE [err |-> PushAll(tk, u.heap, Tail(a.tasks)).err,
          queue |-> [q EXCEPT !.heap = PushAll(tk, u.heap, Tail(a.tasks)).heap],
          selected |-> IF PushAll(tk, u.heap, Tail(a.tasks)).err THEN 0 ELSE a.tasks[1]]

\* get after the drain d, from the push-back of the unavailable tasks on
QueuePushBack(q, tk, d, u) ==
    IF d.err THEN [err |-> TRUE, queue |-> [q EXCEPT !.heap = d.heap], selected |-> 0]
    ELSE IF u.err THEN [err |-> TRUE, queue |-> [q EXCEPT !.heap = u.heap], selected |-> 0]
    ELSE QueueSelect(q, tk, u, SortTasks(tk, d.available))

\* get with the drain d done
QueueDrained(q, tk, d) == QueuePushBack(q, tk, d, PushAll(tk, d.heap, d.unavailable))

\* PriorityTaskQueue.get on a heap that is not empty: the queue afterwards and
\* the task returned (0: None; err: a TypeError leaves get)
QueueGet(q, tk) == QueueDrained(q, tk, Drain(tk, q.heap, q.registry, <<>>, <<>>))

(***************************************************************************)
(* ExecutionManager (execution_manager.py), mode ASYNC_TASKS                *)
(***************************************************************************)
EmProfileIds == {"p1", "p2"}
EmProxyIds == {"A", "B"}
\* the limits given to set_max_profiles_per_proxy
EmLimits == {1, MAX_PROFILES_PER_PROXY}

\* list.remove(x) on a list that holds x: the first x goes
RECURSIVE RemoveFirst(_, _)
RemoveFirst(l, x) ==
    IF l = <<>> THEN l
    ELSE IF Head(l) = x THEN Tail(l)
    ELSE <<Head(l)>> \o RemoveFirst(Tail(l), x)

\* what a call can change: _proxy_profiles (keys in insertion order), the
\* queue registered for each profile in QueueManager._profile_queues (0:
\* none), the queue the running executor of each profile reads (0: not
\* running), and the counters of _global_stats
NewEngine ==
    [proxy_keys |-> <<>>,
     proxy_profiles |-> [a \in EmProxyIds |-> <<>>],
     profile_queues |-> [o \in EmProfileIds |-> 0],
     reads |-> [o \in EmProfileIds |-> 0],
     total_profiles |-> 0,
     active_profiles |-> 0]

\* ExecutionManager.__init__, no call made yet
NewExecutionManager ==
    [engine |-> NewEngine, max_profiles_per_proxy |-> MAX_PROFILES_PER_PROXY,
     nqueues |-> 0,
     last |-> [op |-> "none", profile_id |-> "p1", result |-> "none", before |-> NewEngine]]

\* _can_start_profile_on_proxy
CanStartProfileOnProxy(e, limit, proxy_id) == Len(e.proxy_profiles[proxy_id]) < limit

\* start_profile_execution after the limit test, up to start_profile: a new
\* queue q replaces the one registered for the profile, the profile joins
\* the proxy's list, both counters grow
StartBegin(e, profile_id, proxy_id, q) ==
    [e EXCEPT !.profile_queues[profile_id] = q,
              !.proxy_keys = IF \E i \in 1..Len(@) : @[i] = proxy_id THEN @
                             ELSE Append(@, proxy_id),
              !.proxy_profiles[proxy_id] = Append(@, profile_id),
              !.total_profiles = @ + 1,
              !.active_profiles = @ + 1]

\* start_profile_execution, `else` of `if success`: the roll-back
StartRollBack(e, profile_id, proxy_id) ==
    [e EXCEPT !.proxy_profiles[proxy_id] = RemoveFirst(@, profile_id),
              !.active_profiles = @ - 1,
              !.profile_queues[profile_id] = 0]

\* ExecutionManager.start_profile_execution(profile_id, proxy_id) with
\* ProfileExecutor.start_profile, which fails for a profile that is running
StartProfileExecution(profile_id, proxy_id) ==
    /\ em.nqueues < MaxQueues
    /\ LET e == em.engine
           q == em.nqueues + 1
           e1 == StartBegin(e, profile_id, proxy_id, q)
       IN  IF ~CanStartProfileOnProxy(e, em.max_profiles_per_proxy, proxy_id)
           THEN em' = [em EXCEPT !.last = [op |-> "start", profile_id |-> profile_id,
                                           result |-> "False", before |-> e]]
           ELSE IF e.reads[profile_id] # 0
           THEN em' = [em EXCEPT !.engine = StartRollBack(e1, profile_id, proxy_id),
                                 !.nqueues = q,
                                 !.last = [op |-> "start", profile_id |-> profile_id,
                                           result |-> "False", before |-> e]]
           ELSE em' = [em EXCEPT !.engine = [e1 EXCEPT !.reads[profile_id] = q],
                                 !.nqueues = q,
                                 !.last = [op |-> "start", profile_id |-> profile_id,
                                           result |-> "True", before |-> e]]
    /\ UNCHANGED <<mgrVars, pqVars, delayVars, govVars>>

\* stop_profile_execution, `for proxy_id, profiles in ...items()`: the first
\* list in insertion order that holds the profile loses it
RECURSIVE RemoveFromFirstProxy(_, _, _)
RemoveFromFirstProxy(keys, profiles, profile_id) ==
    IF keys = <<>> THEN profiles
    ELSE IF \E i \in 1..Len(profiles[Head(keys)]) : profiles[Head(keys)][i] = profile_id
    THEN [profiles EXCEPT ![Head(keys)] = RemoveFirst(@, profile_id)]
    ELSE RemoveFromFirstProxy(Tail(keys), profiles, profile_id)

\* ExecutionManager.stop_profile_execution(profile_id) with
\* ProfileExecutor.stop_profile, which fails for a profile that is not running
StopProfileExecution(profile_id) ==
    /\ LET e == em.engine
       IN  em' = [em EXCEPT
               !.engine = [e EXCEPT
                   !.proxy_profiles = RemoveFromFirstProxy(e.proxy_keys, @, profile_id),
                   !.profile_queues[profile_id] = 0,
                   !.active_profiles = IF @ > 0 THEN @ - 1 ELSE @,
                   !.reads[profile_id] = 0],
               !.last = [op |-> "stop", profile_id |-> profile_id,
                         result |-> IF e.reads[profile_id] # 0 THEN "True" ELSE "False",
                         before |-> e]]
    /\ UNCHANGED <<mgrVars, pqVars, delayVars, govVars>>

\* ExecutionManager.set_max_profiles_per_proxy
SetMaxProfilesPerProxy(max_profiles) ==
    /\ em' = [em EXCEPT !.max_profiles_per_proxy = max_profiles,
                        !.last = [@ EXCEPT !.op = "limit"]]
    /\ UNCHANGED <<mgrVars, pqVars, delayVars, govVars>>

\* the callers of the ExecutionManager
NextEngine ==
    \/ \E o \in EmProfileIds, a \in EmProxyIds : StartProfileExecution(o, a)
    \/ \E o \in EmProfileIds : StopProfileExecution(o)
    \/ \E m \in EmLimits : SetMaxProfilesPerProxy(m)

(***************************************************************************)
(* DelayManager (delay_manager.py), one proxy                               *)
(***************************************************************************)
\* the priorities of the tasks given to the DelayManager; 0: no task given
GovPriorities == {CRITICAL, NORMAL, BACKGROUND}
\* the profiles that use the proxy
GovProfileIds == {"p1", "p2"}
\* DelayConfig is set by the caller: priority_multipliers[priority] in percent
\* (absent: GOV_DEFAULT_MULTIPLIER), max_delay, base_delay, success_divider and
\* error_multiplier in percent
GovMultipliers == {GOV_DEFAULT_MULTIPLIER, 300}
GovMaxDelays == {400, 30000}
GovBaseDelays == {1000}
GovSuccessDividers == {110}
GovErrorMultipliers == {150}
\* the delays given to set_proxy_base_delay
GovProxyDelays == {0, 20000}
\* the words of error_type
GovErrorTypes == {"", "rate_limit", "timeout"}
\* the steps of time the model takes
GovSteps == {60, 5000}

\* x / divider for a float divider given in percent
DividedBy(x, pct) == (x * 100) \div pct

\* _calculate_priority_delay, min_intervals
MinInterval(priority) ==
    CASE priority = CRITICAL -> 100
      [] priority = NORMAL -> 1000
      [] priority = BACKGROUND -> 5000

\* no ProxyDelayState yet, nothing executed, nothing returned
NewGovernor ==
    [made |-> FALSE, base_delay |-> BASE_DELAY, current_delay |-> BASE_DELAY,
     active_profiles |-> {}, since |-> [q \in GovPriorities |-> NoTime],
     success_count |-> 0, error_count |-> 0,
     records |-> 0, ticks |-> 0,
     lock |-> "free", waiting |-> {},
     call |-> [priority |-> 0, total |-> 0, delay |-> 0]]

\* DelayManager._calculate_priority_delay: since is the time since the last
\* task of each priority was recorded
CalculatePriorityDelay(since, priority) ==
    IF since[priority] # NoTime /\ since[priority] < MinInterval(priority)
    THEN MinInterval(priority) - since[priority]
    ELSE 0

\* get_delay_for_profile, total_delay before it is limited
TotalDelay(g, priority, enable_profile_delay, multiplier) ==
    LET base_proxy_delay == IF enable_profile_delay THEN g.base_delay
                            ELSE g.current_delay
        count == Cardinality(g.active_profiles)
        delay_per_profile == IF count > 0 THEN base_proxy_delay \div count
                             ELSE base_proxy_delay
    IN  Times(delay_per_profile,
              IF priority = 0 THEN GOV_DEFAULT_MULTIPLIER ELSE multiplier)
            + (IF priority = 0 THEN GOV_DEFAULT_SPACING
               ELSE CalculatePriorityDelay(g.since, priority))

\* the limits without the cap for CRITICAL tasks
LimitDelayUncapped(total, priority, max_delay) ==
    Max(GOV_MIN_DELAY, Min(total, max_delay))

\* get_delay_for_profile, from `total_delay = max(0.1, min(...))` on
LimitDelay(total, priority, max_delay) ==
    LET total_delay == Max(GOV_MIN_DELAY, Min(total, max_delay))
    IN  IF priority = CRITICAL THEN Min(total_delay, GOV_CRITICAL_MAX_DELAY)
        ELSE total_delay

\* DelayManager.get_delay_for_profile(profile_id, proxy_id, task): the state is
\* made if it is missing, the profile joins active_profiles
GetDelayForProfile(profile_id, priority, enable_profile_delay, multiplier, max_delay) ==
    /\ gov.lock = "free"
    /\ LET g == [gov EXCEPT !.made = TRUE,
                            !.active_profiles = @ \cup {profile_id}]
           total == TotalDelay(g, priority, enable_profile_delay, multiplier)
       IN  gov' = [g EXCEPT !.call = [priority |-> priority, total |-> total,
                                      delay |-> LimitDelay(total, priority, max_delay)]]
    /\ UNCHANGED <<mgrVars, pqVars, delayVars, emVars>>

\* DelayManager.set_proxy_base_delay
SetProxyBaseDelay(base_delay) ==
    /\ gov.lock = "free"
    /\ gov' = [gov EXCEPT !.made = TRUE, !.base_delay = base_delay]
    /\ UNCHANGED <<mgrVars, pqVars, delayVars, emVars>>

\* record_request_result, the adaptation of one delay value
AdaptDelay(x, success, priority, error_type, base_delay, max_delay, divider, multiplier) ==
    IF success
    THEN Max(DividedBy(x, IF priority = CRITICAL THEN Times(divider, GOV_FAST_REDUCTION)
                          ELSE divider),
             base_delay)
    ELSE LET factor == IF priority = CRITICAL THEN Min(multiplier, GOV_CRITICAL_INCREASE)
                       ELSE IF priority = BACKGROUND
                            THEN Times(multiplier, GOV_BACKGROUND_INCREASE)
                            ELSE multiplier
             x1 == Min(Times(x, factor), max_delay)
         IN  IF error_type = "rate_limit"
             THEN Min(Times(x1, GOV_RATE_LIMIT_INCREASE), max_delay)
             ELSE IF error_type = "timeout"
                  THEN Min(Times(x1, GOV_TIMEOUT_INCREASE), max_delay)
                  ELSE x1

\* the body of record_request_result under the lock: nothing for a proxy
\* without state; priority 0 stands for a call without a task
Recorded(g, success, priority, error_type, base_delay, max_delay, divider, multiplier) ==
    IF ~g.made THEN g
    ELSE [g EXCEPT
           !.since = IF priority = 0 THEN @ ELSE [@ EXCEPT ![priority] = 0],
           !.success_count = IF success THEN @ + 1 ELSE @,
           !.error_count = IF success THEN @ ELSE @ + 1,
           !.current_delay = AdaptDelay(@, success, priority, error_type, base_delay,
                                        max_delay, divider, multiplier),
           !.base_delay = AdaptDelay(@, success, priority, error_type, base_delay,
                                     max_delay, divider, multiplier)]

\* DelayManager.record_request_result(profile_id, proxy_id, success, task,
\* error_type) for a proxy whose state exists
RecordRequestResult(success, priority, error_type, base_delay, max_delay, divider, multiplier) ==
    /\ gov.lock = "free"
    /\ gov.made
    /\ gov.records < MaxGovRecords
    /\ gov' = [Recorded(gov, success, priority, error_type, base_delay, max_delay,
                        divider, multiplier) EXCEPT !.records = @ + 1]
    /\ UNCHANGED <<mgrVars, pqVars, delayVars, emVars>>

\* DelayManager.remove_profile_from_proxy
GovRemoveProfile(profile_id) ==
    /\ gov.lock = "free"
    /\ profile_id \in gov.active_profiles
    /\ gov' = [gov EXCEPT !.active_profiles = @ \ {profile_id}]
    /\ UNCHANGED <<mgrVars, pqVars, delayVars, emVars>>

\* time passes: the last task of each priority is d further back (beyond the
\* longest interval the distance makes no difference)
GovTick(d) ==
    /\ gov.ticks < MaxGovTicks
    /\ \E q \in GovPriorities :
           gov.since[q] # NoTime /\ gov.since[q] < MinInterval(BACKGROUND)
    /\ gov' = [gov EXCEPT !.ticks = @ + 1, !.since =
                  [q \in GovPriorities |->
                      IF gov.since[q] = NoTime THEN NoTime
                      ELSE Min(gov.since[q] + d, MinInterval(BACKGROUND))]]
    /\ UNCHANGED <<mgrVars, pqVars, delayVars, emVars>>

\* the operations of the DelayManager that callers wait in when the lock is
\* taken; the nested calls of the statistics wait under their own names
GovLaterCalls == {"get_delay_for_profile"}

\* DelayManager.get_priority_stats: takes self._lock and, for the first
\* TaskPriority, awaits get_optimal_delay_for_priority, which enters
\* `async with self._lock` on the asyncio.Lock its caller holds
GetPriorityStats ==
    /\ gov.lock = "free"
    /\ gov' = [gov EXCEPT !.lock = "get_priority_stats",
                          !.waiting = {"get_optimal_delay_for_priority"}]
    /\ UNCHANGED <<mgrVars, pqVars, delayVars, emVars>>

\* DelayManager.get_proxy_stats: takes self._lock, returns None for a proxy
\* without state, and otherwise awaits get_priority_stats, which enters
\* `async with self._lock`
GetProxyStats ==
    /\ gov.lock = "free"
    /\ gov.made
    /\ gov' = [gov EXCEPT !.lock = "get_proxy_stats",
                          !.waiting = {"get_priority_stats"}]
    /\ UNCHANGED <<mgrVars, pqVars, delayVars, emVars>>

\* a later call of an operation finds self._lock taken and waits for it
LockWait(op) ==
    /\ gov.lock # "free"
    /\ op \notin gov.waiting
    /\ gov' = [gov EXCEPT !.waiting = @ \cup {op}]
    /\ UNCHANGED <<mgrVars, pqVars, delayVars, emVars>>

\* the DelayManager and its callers: delays are asked for with and without a
\* task under any configuration, results are recorded, statistics are read,
\* time passes
NextGovernor ==
    \/ \E o \in GovProfileIds, q \in GovPriorities \cup {0}, e \in BOOLEAN,
          m \in GovMultipliers, x \in GovMaxDelays :
          GetDelayForProfile(o, q, e, m, x)
    \/ \E b \in GovProxyDelays : SetProxyBaseDelay(b)
    \/ \E ok \in BOOLEAN, q \in GovPriorities \cup {0}, e \in GovErrorTypes,
          b \in GovBaseDelays, x \in GovMaxDelays, d \in GovSuccessDividers,
          m \in GovErrorMultipliers :
          RecordRequestResult(ok, q, e, b, x, d, m)
    \/ \E o \in GovProfileIds : GovRemoveProfile(o)
    \/ \E d \in GovSteps : GovTick(d)
    \/ GetPriorityStats
    \/ GetProxyStats
    \/ \E op \in GovLaterCalls : LockWait(op)

\* nothing recorded yet
NoRecord == [n |-> 0, op |-> "none", bypass |-> FALSE, outcome |-> "none",
             delay |-> BASE_DELAY, rate_limit_until |-> NoTime]

\* no success recorded since the last failure
NoRun == [len |-> 0, delay |-> BASE_DELAY, bypass |-> FALSE]

\* the successes recorded one after the other, counted in runs of
\* DELAY_DECREASE_THRESHOLD: the length of the run after one more success,
\* current_delay before its first success, whether a bypass task is in it
RunAfterSuccess(run, s, bypass) ==
    IF run.len = 0 \/ run.len = DELAY_DECREASE_THRESHOLD
    THEN [len |-> 1, delay |-> s.current_delay, bypass |-> bypass]
    ELSE [len |-> run.len + 1, delay |-> run.delay, bypass |-> run.bypass \/ bypass]

\* _profile_to_proxy without an entry
NoAssignment == [p \in ProfileIds |-> "None"]

\* a write to a ProxyClusterState: the component whose code assigns the field
\* ("cluster": the Cluster that owns the state or its ProxyStateManager), and
\* the lock that code holds ("cluster": Cluster._lock, "other": another lock)
WriteBy(by, lock) == [by |-> by, lock |-> lock]
\* Cluster.add_profile: async with self._lock
AddProfileWrite == WriteBy("cluster", "cluster")
\* ClusterManager._remove_profile_from_proxy: no lock taken
RemoveProfileWrite == WriteBy("manager", "none")
\* ProxyStateManager.update_state: async with asyncio.Lock(), a lock made for
\* this one call
UpdateStateWrite == WriteBy("cluster", "other")
\* Cluster._handle_unhealthy_proxy: no lock taken
HealthyWrite == WriteBy("cluster", "none")

\* no assign call made yet
NoCall == [op |-> "none", profile_ids |-> <<>>, proxy_id |-> "None",
           result |-> "None", before |-> NoAssignment]

\* execute_task not called for the task
NoExecute == [pc |-> "none", timeout |-> NoTime, deadline |-> NoTime]

\* the manager after ClusterManager(), no task constructed
InitManager ==
    /\ clusters = [p \in ClusterKeys |-> 0]
    /\ profile_to_proxy = NoAssignment
    /\ nclusters = 0
    /\ cluster = [c \in ClusterIds |-> NoCluster]
    /\ state = [c \in ClusterIds |-> NewState]
    /\ task = [t \in TaskIds |-> NoTask]
    /\ shutdown = [pc |-> "idle", stopping |-> {}, count |-> 0, pending |-> {}]
    /\ mlast = NoCall
    /\ ecall = [t \in TaskIds |-> NoExecute]
    /\ wlast = {}

\* a PriorityTaskQueue after PriorityTaskQueue(), its profile just started
InitQueue ==
    /\ pq = NewQueue
    /\ uq = NewQueue
    /\ ptask = [t \in PTaskIds |-> NoPTask]
    /\ pexec = NewExecution

\* a ProxyClusterState after construction
InitState ==
    /\ dstate = NewState
    /\ dwake = 0
    /\ dlast = NoRecord
    /\ drun = NoRun
    /\ gov = NewGovernor
    /\ em = NewExecutionManager

Init == InitManager /\ InitQueue /\ InitState

(***************************************************************************)
(* ClusterManager: submit, assign                                          *)
(***************************************************************************)
\* ClusterManager._get_or_create_cluster: the Cluster object that serves
\* proxy_id afterwards (a new object when _clusters has no entry)
ClusterFor(proxy_id) ==
    IF clusters[proxy_id] # 0 THEN clusters[proxy_id] ELSE nclusters + 1

\* ... and the manager's maps after it
GetOrCreateCluster(proxy_id) ==
    IF clusters[proxy_id] # 0
    THEN /\ clusters' = clusters
         /\ nclusters' = nclusters
    ELSE /\ clusters' = [clusters EXCEPT ![proxy_id] = nclusters + 1]
         /\ nclusters' = nclusters + 1

\* the Cluster objects after _get_or_create_cluster(proxy_id)
ClustersWith(proxy_id) ==
    IF clusters[proxy_id] # 0 THEN cluster
    ELSE [cluster EXCEPT ![nclusters + 1] = NewCluster(proxy_id)]

\* ClusterManager.submit_task for the task object tr
SubmitTask(t, tr) ==
    LET t1 == EnsureFuture([tr EXCEPT !.submits = tr.submits + 1])
    IN  IF t1.proxy_id = "unset"
        THEN \* task.proxy_id raises AttributeError: the except branch
             /\ task' = [task EXCEPT ![t] =
                    IF t1.future = "pending"
                    THEN FutureSet(t1, "exception", "attribute") ELSE t1]
             /\ UNCHANGED <<clusters, nclusters, cluster>>
        ELSE LET c == ClusterFor(t1.proxy_id)
                 cls == ClustersWith(t1.proxy_id)
                 tk == [task EXCEPT ![t] = t1]
                 push == HeapPush(tk, cls[c].queue, t)
             IN  /\ clusters[t1.proxy_id] # 0 \/ nclusters < MaxClusters
                 /\ GetOrCreateCluster(t1.proxy_id)
                 /\ IF push.err
                    THEN \* Cluster.add_task: put raised TypeError
                         /\ cluster' = [cls EXCEPT ![c].queue = push.heap]
                         /\ task' = [tk EXCEPT ![t] =
                                IF t1.future = "pending"
                                THEN FutureSet(t1, "exception", "type_error") ELSE t1]
                    ELSE /\ cluster' = [cls EXCEPT ![c].queue = push.heap,
                                                   ![c].unfinished = cls[c].unfinished + 1]
                         /\ task' = tk

\* the caller constructs a ProfileTask with fields from the given sets and
\* submits it
Submit(t, profile_ids, proxy_ids, priorities, bypasses, handlers) ==
    /\ task[t].submits = 0
    /\ \E profile_id \in profile_ids, proxy_id \in proxy_ids, priority \in priorities,
          bypass \in bypasses, has_handler \in handlers :
           SubmitTask(t, [NoTask EXCEPT !.profile_id = profile_id,
                                        !.proxy_id = proxy_id, !.priority = priority,
                                        !.bypass = bypass, !.has_handler = has_handler])
    /\ UNCHANGED <<profile_to_proxy, state, shutdown, mlast, ecall, wlast, pqVars, delayVars, govVars, emVars>>

\* the caller submits a task object again
Resubmit(t) ==
    /\ task[t].submits > 0
    /\ task[t].submits < MaxSubmits
    /\ CanRetry(task[t])
    /\ SubmitTask(t, task[t])
    /\ UNCHANGED <<profile_to_proxy, state, shutdown, mlast, ecall, wlast, pqVars, delayVars, govVars, emVars>>

\* a caller stops waiting for a handle: asyncio.wait_for(future, timeout) in
\* execute_task cancels the future when the timeout passes
CallerCancel(t) ==
    /\ task[t].future = "pending"
    /\ task' = [task EXCEPT ![t].future = "cancelled"]
    /\ UNCHANGED <<clusters, profile_to_proxy, nclusters, cluster, state, shutdown,
                   mlast, ecall, wlast, pqVars, delayVars, govVars, emVars>>

\* `if timeout:` for an Optional[float]: None and 0 are false
TimeoutIsTrue(timeout) == timeout # NoTime /\ timeout # 0

\* ClusterManager.execute_task(task, timeout) up to its suspension: submit_task,
\* then wait_for(future, timeout) or the bare `await future`; a future that
\* submit_task rejected raises at once
ExecuteTask(t, proxy_ids, handlers, timeout) ==
    /\ task[t].submits = 0
    /\ \E proxy_id \in proxy_ids, has_handler \in handlers :
           SubmitTask(t, [NoTask EXCEPT !.proxy_id = proxy_id,
                                        !.has_handler = has_handler])
    /\ ecall' = [ecall EXCEPT ![t] =
           [pc |-> IF task'[t].future = "pending" THEN "waiting" ELSE "raised",
            timeout |-> timeout,
            deadline |-> IF TimeoutIsTrue(timeout) /\ task'[t].future = "pending"
                         THEN Now + timeout ELSE NoTime]]
    /\ UNCHANGED <<profile_to_proxy, state, shutdown, mlast, wlast, pqVars, delayVars, govVars, emVars>>

\* the future an execute_task call waits for is done: the call returns its
\* result or raises its exception
ExecuteEnd(t) ==
    /\ ecall[t].pc = "waiting"
    /\ task[t].future \in {"result", "exception", "cancelled"}
    /\ ecall' = [ecall EXCEPT ![t].pc = IF task[t].future = "result" THEN "returned"
                                        ELSE "raised",
                              ![t].deadline = NoTime]
    /\ UNCHANGED <<clusters, profile_to_proxy, nclusters, cluster, state, task,
                   shutdown, mlast, wlast, pqVars, delayVars, govVars, emVars>>

\* the timeout of wait_for passes first: the future is cancelled and the call
\* raises TimeoutError
ExecuteTimeout(t) ==
    /\ ecall[t].pc = "waiting"
    /\ ecall[t].deadline # NoTime
    /\ ecall[t].deadline <= Now
    /\ task[t].future = "pending"
    /\ task' = [task EXCEPT ![t].future = "cancelled"]
    /\ ecall' = [ecall EXCEPT ![t].pc = "timeout", ![t].deadline = NoTime]
    /\ UNCHANGED <<clusters, profile_to_proxy, nclusters, cluster, state,
                   shutdown, mlast, wlast, pqVars, delayVars, govVars, emVars>>

\* ClusterManager.select_best_proxy_id, from position i of the list on
RECURSIVE SelectBest(_, _, _, _)
SelectBest(ids, i, best, min_profiles) ==
    IF i > Len(ids) THEN best
    ELSE IF clusters[ids[i]] = 0 THEN ids[i]
    ELSE LET profile_count == Cardinality(state[clusters[ids[i]]].active_profiles)
         IN  IF min_profiles < 0 \/ profile_count < min_profiles
             THEN SelectBest(ids, i + 1, ids[i], profile_count)
             ELSE SelectBest(ids, i + 1, best, min_profiles)

\* select_best_proxy_id that takes the first proxy of the list
SelectFirstProxyId(ids) == IF ids = <<>> THEN "None" ELSE ids[1]

SelectBestProxyId(ids) == SelectBest(ids, 1, "None", -1)

\* the record of assign_profile(profile_id, proxy_arg) returning result
AssignCall(profile_id, proxy_arg, result) ==
    [op |-> "assign", profile_ids |-> <<profile_id>>, proxy_id |-> proxy_arg,
     result |-> result, before |-> profile_to_proxy]

\* _ensure_profile_assigned without the test for an assignment
AssignProfileAnew(profile_id, proxy_arg) ==
    /\ LET proxy_id == IF proxy_arg = "None" THEN SelectBestProxyId(AllProxyIds)
                       ELSE proxy_arg
           c == ClusterFor(proxy_id)
       IN  /\ clusters[proxy_id] # 0 \/ nclusters < MaxClusters
           /\ GetOrCreateCluster(proxy_id)
           /\ cluster' = ClustersWith(proxy_id)
           /\ state' = [state EXCEPT ![c].active_profiles = @ \cup {profile_id}]
           /\ profile_to_proxy' = [profile_to_proxy EXCEPT ![profile_id] = proxy_id]
           /\ mlast' = AssignCall(profile_id, proxy_arg, proxy_id)
           /\ wlast' = {AddProfileWrite}
    /\ UNCHANGED <<task, shutdown, ecall, pqVars, delayVars, govVars, emVars>>

\* ClusterManager.assign_profile / _ensure_profile_assigned
AssignProfile(profile_id, proxy_arg) ==
    /\ IF profile_to_proxy[profile_id] # "None"
       THEN /\ mlast' = AssignCall(profile_id, proxy_arg, profile_to_proxy[profile_id])
            /\ UNCHANGED <<clusters, profile_to_proxy, nclusters, cluster, state, wlast>>
       ELSE LET proxy_id == IF proxy_arg = "None" THEN SelectBestProxyId(AllProxyIds)
                            ELSE proxy_arg
                c == ClusterFor(proxy_id)
            IN  /\ clusters[proxy_id] # 0 \/ nclusters < MaxClusters
                /\ GetOrCreateCluster(proxy_id)
                /\ cluster' = ClustersWith(proxy_id)
                /\ state' = [state EXCEPT ![c].active_profiles = @ \cup {profile_id}]
                /\ profile_to_proxy' = [profile_to_proxy EXCEPT ![profile_id] = proxy_id]
                /\ mlast' = AssignCall(profile_id, proxy_arg, proxy_id)
                /\ wlast' = {AddProfileWrite}
    /\ UNCHANGED <<task, shutdown, ecall, pqVars, delayVars, govVars, emVars>>

\* _remove_profile_from_proxy that removes nothing
RemoveProfileFromProxyNothing(st, profile_id, proxy_id) == st

\* ClusterManager._remove_profile_from_proxy on the owner sets st
RemoveProfileFromProxy(st, profile_id, proxy_id) ==
    IF clusters[proxy_id] = 0 THEN st
    ELSE [st EXCEPT ![clusters[proxy_id]].active_profiles = @ \ {profile_id}]

\* ClusterManager._reassign_profile_if_needed on the map and the owner sets
\* of a (target_cluster: the Cluster object of the target)
ReassignProfileIfNeeded(a, profile_id, target_proxy_id, target_cluster) ==
    LET current_proxy == a.profile_to_proxy[profile_id]
        st == IF current_proxy # "None"
              THEN RemoveProfileFromProxy(a.state, profile_id, current_proxy)
              ELSE a.state
    IN  IF current_proxy = target_proxy_id THEN a
        ELSE [profile_to_proxy |->
                  [a.profile_to_proxy EXCEPT ![profile_id] = target_proxy_id],
              state |->
                  [st EXCEPT ![target_cluster].active_profiles = @ \cup {profile_id}]]

\* the loop of assign_profiles_to_proxy left after the first profile
ReassignFirst(a, profile_ids, i, proxy_id, c) ==
    IF i > Len(profile_ids) \/ i > 1 THEN a
    ELSE ReassignProfileIfNeeded(a, profile_ids[i], proxy_id, c)

\* assign_profiles_to_proxy, `for profile_id in profile_ids`, from position i on
RECURSIVE ReassignAll(_, _, _, _, _)
ReassignAll(a, profile_ids, i, proxy_id, c) ==
    IF i > Len(profile_ids) THEN a
    ELSE ReassignAll(ReassignProfileIfNeeded(a, profile_ids[i], proxy_id, c),
                     profile_ids, i + 1, proxy_id, c)

\* the writes of assign_profiles_to_proxy that took the owner sets from st to
\* st1: _remove_profile_from_proxy on the Clusters left, add_profile on the
\* target Cluster c
ReassignWrites(st, st1, c) ==
    {RemoveProfileWrite : d \in {e \in ClusterIds \ {c} : st1[e] # st[e]}}
        \cup {AddProfileWrite : d \in {e \in {c} : st1[e] # st[e]}}

\* ClusterManager.assign_profiles_to_proxy
AssignProfilesToProxy(profile_ids, proxy_id) ==
    /\ clusters[proxy_id] # 0 \/ nclusters < MaxClusters
    /\ GetOrCreateCluster(proxy_id)
    /\ cluster' = ClustersWith(proxy_id)
    /\ LET a == ReassignAll([profile_to_proxy |-> profile_to_proxy, state |-> state],
                            profile_ids, 1, proxy_id, ClusterFor(proxy_id))
           w == ReassignWrites(state, a.state, ClusterFor(proxy_id))
       IN  /\ profile_to_proxy' = a.profile_to_proxy
           /\ state' = a.state
           /\ wlast' = IF w = {} THEN wlast ELSE w
    /\ mlast' = [op |-> "reassign", profile_ids |-> profile_ids, proxy_id |-> proxy_id,
                 result |-> "None", before |-> profile_to_proxy]
    /\ UNCHANGED <<task, shutdown, ecall, pqVars, delayVars, govVars, emVars>>

(***************************************************************************)
(* Cluster._worker_loop                                                    *)
(***************************************************************************)
\* Queue.task_done(): ValueError when called too many times
TaskDoneRaises(cl) == cl.unfinished <= 0
TaskDone(cl) == [cl EXCEPT !.unfinished = IF cl.unfinished > 0 THEN cl.unfinished - 1 ELSE 0]

\* a loop without the except branch: the error ends the worker task
WorkerErrorEndsLoop(cl) == [cl EXCEPT !.worker = "finished"]

\* the except branch of the loop: _handle_worker_error (its locals() holds no
\* 'task', so it resolves no handle; task_done with ValueError swallowed),
\* then asyncio.sleep(1)
WorkerError(cl) ==
    [TaskDone(cl) EXCEPT !.worker = "err_sleep", !.wake = Now + WORKER_ERROR_PAUSE]

\* _process_task that puts a failed task that can be retried back in the queue
ProcessEndWithRetry(c, cl, t, tr, outcome, err) ==
    LET s1 == UpdateState(state[c], tr.bypass, outcome, Now)
        tk == [task EXCEPT ![t] = HandleTaskResult(tr, outcome, err)]
        again == outcome # "success" /\ CanRetry(tr)
        push == HeapPush(tk, cl.queue, t)
    IN  /\ task' = tk
        /\ state' = [state EXCEPT ![c] = s1]
        /\ wlast' = {UpdateStateWrite}
        /\ cluster' = [cluster EXCEPT ![c] =
               [cl EXCEPT !.worker = "delay", !.wtask = 0,
                          !.queue = IF again THEN push.heap ELSE cl.queue,
                          !.unfinished = IF again THEN cl.unfinished + 1 ELSE cl.unfinished,
                          !.wake = Now + CalculateDelay(s1, tr.bypass, Now)]]

\* the end of _process_task for task t: _handle_task_result (resolve the handle,
\* update_state), then _apply_delay
ProcessEnd(c, cl, t, tr, outcome, err) ==
    LET s1 == UpdateState(state[c], tr.bypass, outcome, Now)
    IN  /\ task' = [task EXCEPT ![t] = HandleTaskResult(tr, outcome, err)]
        /\ state' = [state EXCEPT ![c] = s1]
        /\ wlast' = {UpdateStateWrite}
        /\ cluster' = [cluster EXCEPT ![c] =
               [cl EXCEPT !.worker = "delay", !.wtask = 0,
                          !.wake = Now + CalculateDelay(s1, tr.bypass, Now)]]

\* one pass of the loop from _get_next_task to the next suspension
WorkerGet(c) ==
    /\ cluster[c].worker = "get"
    /\ cluster[c].queue # <<>>
    /\ LET pop == HeapPop(task, cluster[c].queue)
           cl == [cluster[c] EXCEPT !.queue = pop.heap]
           t == pop.item
       IN  IF pop.err
           THEN \* heappop raised TypeError
                /\ cluster' = [cluster EXCEPT ![c] = WorkerError(cl)]
                /\ UNCHANGED <<task, state, wlast>>
           ELSE IF t = STOP_TASK
           THEN /\ cluster' = [cluster EXCEPT ![c] = [cl EXCEPT !.worker = "finished"]]
                /\ UNCHANGED <<task, state, wlast>>
           ELSE IF IsRateLimited(state[c], task[t].bypass, Now)
           THEN \* _handle_rate_limited_task
                LET push == HeapPush(task, cl.queue, t)
                    cl1 == [cl EXCEPT !.queue = push.heap]
                IN  /\ cluster' = [cluster EXCEPT ![c] =
                           IF push.err THEN WorkerError(cl1)
                           ELSE [cl1 EXCEPT
                                   !.unfinished = cl.unfinished + 1,
                                   !.worker = "rl_sleep",
                                   !.wake = Now + Min(CalculateRateLimitDelay(state[c], Now),
                                                      RATE_LIMIT_RECHECK_DELAY)]]
                    /\ UNCHANGED <<task, state, wlast>>
           ELSE IF ~state[c].is_healthy
           THEN \* _handle_unhealthy_proxy, up to the sleep
                /\ cluster' = [cluster EXCEPT ![c] =
                       [cl EXCEPT !.worker = "health_sleep",
                                  !.wake = Now + HEALTH_CHECK_DELAY]]
                /\ UNCHANGED <<task, state, wlast>>
           ELSE IF ~task[t].has_handler
           THEN \* TaskHandler.execute_task: no handler for the action; the error
                \* text holds the action name, whose words give its class
                \E cls \in Outcomes \ {"success"} :
                    ProcessEnd(c, cl, t, task[t], cls, "no_handler")
           ELSE \* mark_started, then the handler runs
                /\ task' = [task EXCEPT ![t] = MarkStarted(task[t])]
                /\ cluster' = [cluster EXCEPT ![c] =
                       [cl EXCEPT !.worker = "handler", !.wtask = t]]
                /\ UNCHANGED <<state, wlast>>
    /\ UNCHANGED <<clusters, profile_to_proxy, nclusters, shutdown, mlast, ecall,
                   pqVars, delayVars, govVars, emVars>>


\* the handler call of the task in flight ends: TaskHandler.execute_task marks
\* the task, then the rest of _process_task
HandlerReturn(c, outcome) ==
    /\ cluster[c].worker = "handler"
    /\ LET t == cluster[c].wtask
           tr == IF outcome = "success" THEN MarkCompleted(task[t])
                 ELSE MarkFailed(task[t], "handler")
       IN  ProcessEnd(c, cluster[c], t, tr, outcome, "handler")
    /\ UNCHANGED <<clusters, profile_to_proxy, nclusters, shutdown, mlast, ecall,
                   pqVars, delayVars, govVars, emVars>>

\* a sleep of the loop ends
WorkerWake(c) ==
    /\ cluster[c].worker \in Sleeping
    /\ cluster[c].wake <= Now
    /\ LET cl == [cluster[c] EXCEPT !.worker = "get", !.wake = NoTime]
       IN  IF cluster[c].worker = "delay"
           THEN \* self._task_queue.task_done() after _process_task
                /\ cluster' = [cluster EXCEPT ![c] =
                       IF TaskDoneRaises(cl) THEN WorkerError(cl) ELSE TaskDone(cl)]
                /\ UNCHANGED <<state, wlast>>
           ELSE IF cluster[c].worker = "health_sleep"
           THEN \* _handle_unhealthy_proxy after the sleep
                /\ cluster' = [cluster EXCEPT ![c] = cl]
                /\ state' = [state EXCEPT ![c].is_healthy = TRUE]
                /\ wlast' = {HealthyWrite}
           ELSE /\ cluster' = [cluster EXCEPT ![c] = cl]
                /\ UNCHANGED <<state, wlast>>
    /\ UNCHANGED <<clusters, profile_to_proxy, nclusters, task, shutdown,
                   mlast, ecall, pqVars, delayVars, govVars, emVars>>

(***************************************************************************)
(* Cluster.stop and ClusterManager.shutdown                                *)
(***************************************************************************)
\* shutdown(): one stop task per Cluster of _clusters, then gather
ShutdownStart ==
    /\ shutdown.pc = "idle"
    /\ shutdown.count < MaxShutdowns
    /\ LET stopping == {clusters[p] : p \in ClusterKeys} \ {0}
           pending == {t \in TaskIds : task[t].future = "pending"}
       IN  IF stopping = {}
           THEN /\ shutdown' = [shutdown EXCEPT !.count = shutdown.count + 1,
                                                !.pending = pending, !.pc = "idle"]
                /\ profile_to_proxy' = NoAssignment
                /\ UNCHANGED cluster
           ELSE /\ shutdown' = [shutdown EXCEPT !.pc = "gather", !.stopping = stopping,
                                                !.pending = pending]
                /\ cluster' = [c \in ClusterIds |->
                       IF c \in stopping THEN [cluster[c] EXCEPT !.stop = "start"]
                       ELSE cluster[c]]
                /\ UNCHANGED profile_to_proxy
    /\ UNCHANGED <<clusters, nclusters, state, task, mlast, ecall, wlast, pqVars, delayVars, govVars, emVars>>

\* Cluster.stop up to wait_for(self._worker_task, timeout=30.0)
StopBegin(c) ==
    /\ cluster[c].stop = "start"
    /\ LET push == HeapPush(task, cluster[c].queue, STOP_TASK)
       IN  cluster' = [cluster EXCEPT ![c] =
               IF push.err THEN [cluster[c] EXCEPT !.queue = push.heap, !.stop = "done"]
               ELSE [cluster[c] EXCEPT !.queue = push.heap,
                                       !.unfinished = cluster[c].unfinished + 1,
                                       !.stop = "waiting",
                                       !.stop_deadline = Now + STOP_TIMEOUT]]
    /\ UNCHANGED <<clusters, profile_to_proxy, nclusters, state, task, shutdown,
                   mlast, ecall, wlast, pqVars, delayVars, govVars, emVars>>

\* the rest of Cluster.stop once the worker is over: _worker_task = None, then
\* clear_queue
StopEnd(c, cl) ==
    LET r == ClearQueue(task, cl.queue)
    IN  /\ cluster' = [cluster EXCEPT ![c] =
               [cl EXCEPT !.queue = r.heap, !.stop = "done", !.stop_deadline = NoTime]]
        /\ task' = r.task

\* wait_for returns: the worker loop has left through the stop signal
StopWorkerDone(c) ==
    /\ cluster[c].stop = "waiting"
    /\ ~WorkerAlive(cluster[c])
    /\ StopEnd(c, cluster[c])
    /\ UNCHANGED <<clusters, profile_to_proxy, nclusters, state, shutdown,
                   mlast, ecall, wlast, pqVars, delayVars, govVars, emVars>>

\* wait_for times out: the worker task is cancelled where it is suspended (the
\* CancelledError is no Exception, nothing in the loop catches it)
StopTimeout(c) ==
    /\ cluster[c].stop = "waiting"
    /\ WorkerAlive(cluster[c])
    /\ cluster[c].stop_deadline <= Now
    /\ StopEnd(c, [cluster[c] EXCEPT !.worker = "cancelled", !.wake = NoTime])
    /\ UNCHANGED <<clusters, profile_to_proxy, nclusters, state, shutdown,
                   mlast, ecall, wlast, pqVars, delayVars, govVars, emVars>>

\* gather has every stop task: the maps are cleared
ShutdownFinish ==
    /\ shutdown.pc = "gather"
    /\ \A c \in shutdown.stopping : cluster[c].stop = "done"
    /\ clusters' = [p \in ClusterKeys |-> 0]
    /\ profile_to_proxy' = NoAssignment
    /\ shutdown' = [shutdown EXCEPT !.pc = "idle", !.count = shutdown.count + 1]
    /\ UNCHANGED <<nclusters, cluster, state, task, mlast, ecall, wlast, pqVars, delayVars, govVars, emVars>>

(***************************************************************************)
(* Time                                                                    *)
(***************************************************************************)
\* a step the event loop can run at once
Ready ==
    \/ \E c \in ClusterIds :
           \/ cluster[c].worker = "get" /\ cluster[c].queue # <<>>
           \/ cluster[c].worker \in Sleeping /\ cluster[c].wake <= Now
           \/ cluster[c].stop = "start"
           \/ cluster[c].stop = "waiting" /\ ~WorkerAlive(cluster[c])
           \/ cluster[c].stop = "waiting" /\ cluster[c].stop_deadline <= Now
    \/ \E t \in TaskIds :
           /\ ecall[t].pc = "waiting"
           /\ \/ task[t].future # "pending"
              \/ ecall[t].deadline # NoTime /\ ecall[t].deadline <= Now

\* the instants at which a sleep or a wait_for ends
Timers ==
    {cluster[c].wake : c \in {d \in ClusterIds : cluster[d].worker \in Sleeping}}
    \cup {cluster[c].stop_deadline : c \in {d \in ClusterIds : cluster[d].stop = "waiting"}}
    \cup {ecall[t].deadline : t \in {u \in TaskIds : ecall[u].deadline # NoTime}}

\* an instant d later, seen from d later
Later(x, d) == IF x = NoTime THEN NoTime ELSE Max(x - d, 0)

\* time passes up to the next such instant while nothing is ready to run
Tick ==
    /\ ~Ready
    /\ ~(shutdown.pc = "gather" /\ \A c \in shutdown.stopping : cluster[c].stop = "done")
    /\ Timers # {}
    /\ LET d == CHOOSE x \in Timers : \A y \in Timers : x <= y
       IN  /\ cluster' = [c \in ClusterIds |->
                  [cluster[c] EXCEPT !.wake = Later(@, d), !.stop_deadline = Later(@, d)]]
           /\ state' = [c \in ClusterIds |->
                  [state[c] EXCEPT !.rate_limit_until = Later(@, d)]]
           /\ ecall' = [t \in TaskIds |-> [ecall[t] EXCEPT !.deadline = Later(@, d)]]
    /\ UNCHANGED <<clusters, profile_to_proxy, nclusters, task, shutdown,
                   mlast, wlast, pqVars, delayVars, govVars, emVars>>

(***************************************************************************)
(* One profile: its PriorityTaskQueue and ProfileExecutor._execute_profile  *)
(***************************************************************************)
\* QueueManager.add_task_to_profile(profile_id, task): register_task_future,
\* then put into the urgent queue for a CRITICAL task and into the profile's
\* queue otherwise (pq is the queue of p1; another profile adds CRITICAL
\* tasks only)
AddTaskToProfile(profile_id, t, priority, dependencies, has_handler) ==
    /\ ~ptask[t].made
    /\ profile_id = "p1" \/ priority = CRITICAL
    /\ LET tk == [ptask EXCEPT ![t] = [NoPTask EXCEPT !.made = TRUE,
                                                        !.profile_id = profile_id,
                                                        !.priority = priority,
                                                        !.dependencies = dependencies,
                                                        !.has_handler = has_handler,
                                                        !.future = "pending"]]
       IN  /\ ptask' = tk
           /\ IF priority = CRITICAL
              THEN uq' = QueuePut(uq, tk, t) /\ UNCHANGED pq
              ELSE pq' = QueuePut(pq, tk, t) /\ UNCHANGED uq
    /\ UNCHANGED <<pexec, mgrVars, delayVars, govVars, emVars>>

\* add_task_to_profile for the profile whose queue pq is
PQPut(t, priority, dependencies, has_handler) ==
    /\ ~ptask[t].made
    /\ LET tk == [ptask EXCEPT ![t] = [NoPTask EXCEPT !.made = TRUE,
                                                        !.priority = priority,
                                                        !.dependencies = dependencies,
                                                        !.has_handler = has_handler,
                                                        !.future = "pending"]]
       IN  /\ ptask' = tk
           /\ IF priority = CRITICAL
              THEN uq' = QueuePut(uq, tk, t) /\ UNCHANGED pq
              ELSE pq' = QueuePut(pq, tk, t) /\ UNCHANGED uq
    /\ UNCHANGED <<pexec, mgrVars, delayVars, govVars, emVars>>

\* QueueManager.get_next_task_for_profile(profile_id, timeout) where it
\* returns at once: a task of the urgent queue if get(timeout=0.1) gives one,
\* otherwise what the profile's queue gives; a TypeError of get leaves the
\* call. The task returned is marked with the profile it was returned to.
GetNextTaskForProfile(profile_id) ==
    /\ uq.heap # <<>> \/ (profile_id = "p1" /\ pq.heap # <<>>)
    /\ LET u == IF uq.heap # <<>> THEN QueueGet(uq, ptask)
                ELSE [err |-> FALSE, queue |-> uq, selected |-> 0]
           own == ~u.err /\ u.selected = 0 /\ profile_id = "p1" /\ pq.heap # <<>>
           g == IF own THEN QueueGet(pq, ptask)
                ELSE [err |-> FALSE, queue |-> pq, selected |-> 0]
           selected == IF u.selected # 0 THEN u.selected ELSE g.selected
       IN  /\ uq' = u.queue
           /\ pq' = g.queue
           /\ ptask' = IF selected = 0 THEN ptask
                       ELSE [ptask EXCEPT ![selected].taken_by = profile_id]
    /\ UNCHANGED <<pexec, mgrVars, delayVars, govVars, emVars>>

\* PriorityTaskQueue.remove_task
PQRemove(t) ==
    /\ t \in pq.registry
    /\ pq' = [pq EXCEPT !.registry = pq.registry \ {t}]
    /\ UNCHANGED <<uq, ptask, pexec, mgrVars, delayVars, govVars, emVars>>

\* QueueManager.cancel_task(profile_id, task_id): remove_task on the urgent
\* queue and on the profile's queue; when either had the task registered the
\* call returns True and cancels the task's future if it is not done
CancelTask(t) ==
    /\ ptask[t].made
    /\ LET cancelled == t \in uq.registry \/ t \in pq.registry
       IN  /\ uq' = [uq EXCEPT !.registry = uq.registry \ {t}]
           /\ pq' = [pq EXCEPT !.registry = pq.registry \ {t}]
           /\ ptask' = [ptask EXCEPT
                  ![t].cancel = IF cancelled THEN "true" ELSE "false",
                  ![t].future = IF cancelled /\ @ = "pending" THEN "cancelled" ELSE @]
    /\ UNCHANGED <<pexec, mgrVars, delayVars, govVars, emVars>>

\* the `except Exception` branch of the loop in _execute_profile when no
\* handler was called: the failure is recorded in the DelayManager with
\* state._current_task, which is not set there, so without a task; the text
\* of the exception is one of error_types (a TypeError of the queue names no
\* class, the ValueError of an unknown action carries the action's name)
LoopFailure(error_types) ==
    /\ gov.lock = "free"
    /\ \E e \in error_types, b \in GovBaseDelays, x \in GovMaxDelays,
          d \in GovSuccessDividers, m \in GovErrorMultipliers :
          gov' = Recorded(gov, FALSE, 0, e, b, x, d, m)

\* _execute_task after the handler returned or raised, followed for a raise
\* by the `except Exception` branch of the loop: a success is recorded with
\* the task; a failure is recorded with the task by _execute_task, which
\* re-raises after its finally deleted state._current_task, and the loop
\* records the same exception again without a task
TaskRecorded(g, ok, priority, e, b, x, d, m) ==
    IF ok THEN Recorded(g, TRUE, priority, "", b, x, d, m)
    ELSE Recorded(Recorded(g, FALSE, priority, e, b, x, d, m),
                  FALSE, 0, e, b, x, d, m)

\* one pass of the loop with what task_queue.get gave: an exception (TypeError
\* of the queue, ValueError of an unknown action) is caught by the loop, which
\* retries nothing: state._current_task is not set at that point
ExecTask(g) ==
    IF g.err
    THEN /\ pq' = g.queue
         /\ LoopFailure({""})
         /\ UNCHANGED <<ptask, pexec>>
    ELSE IF g.selected = 0
    THEN /\ pq' = g.queue
         /\ UNCHANGED <<ptask, pexec, gov>>
    ELSE IF ~CanExecute(ptask[g.selected], pexec.completed_tasks)
    THEN /\ pq' = QueuePut(g.queue, ptask, g.selected)
         /\ UNCHANGED <<ptask, pexec, gov>>
    ELSE IF ~ptask[g.selected].has_handler
    THEN /\ pq' = g.queue
         /\ LoopFailure(GovErrorTypes)
         /\ UNCHANGED <<ptask, pexec>>
    ELSE /\ pq' = g.queue
         /\ ptask' = [ptask EXCEPT ![g.selected].dispatched = @ + 1]
         /\ pexec' = [pexec EXCEPT !.pc = "handler", !.task = g.selected]
         /\ UNCHANGED gov

\* one pass of the loop from task_queue.get to the handler call
ExecGet ==
    /\ pexec.pc = "get"
    /\ pq.heap # <<>>
    /\ ExecTask(QueueGet(pq, ptask))
    /\ UNCHANGED <<uq, mgrVars, delayVars, emVars>>

\* the handler call ends and the outcome is recorded in the DelayManager; on
\* success set_task_result resolves the task's future if it is not done and
\* the task joins completed_tasks; on an exception _execute_task has deleted
\* state._current_task, nothing is retried and the future is left as it is
ExecReturn(ok) ==
    /\ pexec.pc = "handler"
    /\ pexec' = [pexec EXCEPT !.pc = "get", !.task = 0,
                              !.completed_tasks =
                                  IF ok THEN pexec.completed_tasks \cup {pexec.task}
                                  ELSE pexec.completed_tasks]
    /\ ptask' = [ptask EXCEPT ![pexec.task].future =
                     IF ok /\ @ = "pending" THEN "result" ELSE @]
    /\ gov.lock = "free"
    /\ \E e \in GovErrorTypes, b \in GovBaseDelays, x \in GovMaxDelays,
          d \in GovSuccessDividers, m \in GovErrorMultipliers :
          gov' = TaskRecorded(gov, ok, ptask[pexec.task].priority, e, b, x, d, m)
    /\ UNCHANGED <<pq, uq, mgrVars, delayVars, emVars>>

NextPQ ==
    \/ \E t \in PTaskIds, p \in PQPriorities, h \in BOOLEAN :
          \E d \in SUBSET (PTaskIds \ {t}) : PQPut(t, p, d, h)
    \/ \E t \in PTaskIds : PQRemove(t)
    \/ ExecGet
    \/ \E ok \in BOOLEAN : ExecReturn(ok)

SpecPQ == Init /\ [][NextPQ]_vars

\* the same profile with callers that cancel: tasks of every priority are
\* added and cancelled before and after they are dispatched
NextCancel ==
    \/ \E t \in PTaskIds, p \in PQPriorities \cup {CRITICAL} :
          \E d \in SUBSET (PTaskIds \ {t}) : PQPut(t, p, d, TRUE)
    \/ \E t \in PTaskIds : CancelTask(t)
    \/ ExecGet
    \/ \E ok \in BOOLEAN : ExecReturn(ok)

SpecCancel == Init /\ [][NextCancel]_vars

\* the profiles that ask the QueueManager for their next task: p1 with its
\* queue, p2 without a queue of its own (it adds CRITICAL tasks only)
UrgentProfileIds == {"p1", "p2"}

\* two profiles that add tasks and take their next task from the QueueManager
NextUrgent ==
    \/ \E o \in UrgentProfileIds, t \in PTaskIds, p \in PQPriorities \cup {CRITICAL} :
          AddTaskToProfile(o, t, p, {}, TRUE)
    \/ \E o \in UrgentProfileIds : GetNextTaskForProfile(o)
    \/ \E t \in PTaskIds : CancelTask(t)

SpecUrgent == Init /\ [][NextUrgent]_vars

(***************************************************************************)
(* One ProxyClusterState under its worker's outcomes                        *)
(***************************************************************************)
\* the worker processes a task (_should_skip_task lets it through), its outcome
\* is recorded by update_state and _apply_delay starts to sleep
RecordOutcome(bypass, outcome, max_successes, max_records) ==
    /\ dwake = 0
    /\ IF outcome = "success" /\ ~bypass
       THEN dstate.success_count < max_successes
       ELSE dlast.n < max_records
    /\ ~IsRateLimited(dstate, bypass, Now)
    /\ dstate.is_healthy
    /\ LET s1 == UpdateState(dstate, bypass, outcome, Now)
       IN  /\ dstate' = s1
           /\ dwake' = CalculateDelay(s1, bypass, Now)
    /\ dlast' = [n |-> IF outcome = "success" /\ ~bypass THEN dlast.n ELSE dlast.n + 1,
                 op |-> "record", bypass |-> bypass,
                 outcome |-> outcome, delay |-> dstate.current_delay,
                 rate_limit_until |-> dstate.rate_limit_until]
    /\ UNCHANGED <<mgrVars, pqVars, govVars, emVars>>

\* ... with up to MaxSuccesses successes of non-bypass tasks and up to
\* MaxRecords other outcomes
DRecord(bypass, outcome) ==
    /\ RecordOutcome(bypass, outcome, MaxSuccesses, MaxRecords)
    /\ UNCHANGED drun

\* ... with up to MaxRunSuccesses and MaxRunRecords of them, the runs of
\* successes followed
DRunRecord(bypass, outcome) ==
    /\ RecordOutcome(bypass, outcome, MaxRunSuccesses, MaxRunRecords)
    /\ drun' = IF outcome = "success" THEN RunAfterSuccess(drun, dstate, bypass)
               ELSE NoRun

\* the sleep of _apply_delay ends
DWake ==
    /\ dwake > 0
    /\ dstate' = [dstate EXCEPT !.rate_limit_until = Later(@, dwake)]
    /\ dwake' = 0
    /\ dlast' = [dlast EXCEPT !.op = "wake"]
    /\ UNCHANGED <<drun, mgrVars, pqVars, govVars, emVars>>

\* _handle_unhealthy_proxy: the worker sleeps HEALTH_CHECK_DELAY and sets
\* is_healthy
DHealthCheck ==
    /\ dwake = 0
    /\ ~dstate.is_healthy
    /\ dstate' = [dstate EXCEPT !.is_healthy = TRUE,
                                !.rate_limit_until = Later(@, HEALTH_CHECK_DELAY)]
    /\ dlast' = [dlast EXCEPT !.op = "health"]
    /\ UNCHANGED <<dwake, drun, mgrVars, pqVars, govVars, emVars>>

\* (an error text with keywords of either list is followed in SpecRun)
NextDelay ==
    \/ \E b \in BOOLEAN, o \in Outcomes \ {"both"} : DRecord(b, o)
    \/ DWake
    \/ DHealthCheck

SpecDelay == Init /\ [][NextDelay]_vars

\* the same state under failures of every class of error text, one after the
\* other
NextFail ==
    \/ \E b \in BOOLEAN, o \in Outcomes \ {"success"} : DRecord(b, o)
    \/ DWake
    \/ DHealthCheck

SpecFail == Init /\ [][NextFail]_vars

\* the ExecutionManager alone
SpecEngine == Init /\ [][NextEngine]_vars

\* the DelayManager alone
SpecGovernor == Init /\ [][NextGovernor]_vars

\* the per-profile executor with a DelayManager that has state for its proxy:
\* the proxy's base delay is set, tasks without dependencies are added with
\* and without a registered handler, the loop takes them and the handler
\* calls end in both ways
NextRecorded ==
    \/ \E b \in GovProxyDelays : SetProxyBaseDelay(b)
    \/ \E t \in PTaskIds, p \in PQPriorities, h \in BOOLEAN : PQPut(t, p, {}, h)
    \/ ExecGet
    \/ \E ok \in BOOLEAN : ExecReturn(ok)

SpecRecorded == Init /\ [][NextRecorded]_vars

\* the same state with the runs of successes followed
NextRun ==
    \/ \E b \in BOOLEAN, o \in Outcomes : DRunRecord(b, o)
    \/ DWake
    \/ DHealthCheck

SpecRun == Init /\ [][NextRun]_vars

\* the manager with its Clusters, their workers and shutdown: tasks for either
\* proxy, with and without bypass_adaptive_delay, assignments, and a handler
\* call that ends in every way
Next ==
    \/ \E t \in TaskIds : Submit(t, {"p1"}, ProxyIds, {NORMAL}, BOOLEAN, {TRUE})
    \/ \E a \in ClusterKeys : AssignProfile("p1", a)
    \/ \E c \in ClusterIds : WorkerGet(c)
    \/ \E c \in ClusterIds, o \in Outcomes : HandlerReturn(c, o)
    \/ \E c \in ClusterIds : WorkerWake(c)
    \/ ShutdownStart
    \/ \E c \in ClusterIds : StopBegin(c)
    \/ \E c \in ClusterIds : StopWorkerDone(c)
    \/ \E c \in ClusterIds : StopTimeout(c)
    \/ ShutdownFinish
    \/ Tick

Spec == Init /\ [][Next]_vars

\* one Cluster and its worker: the tasks differ in priority, in
\* bypass_adaptive_delay and in whether their action has a handler; a handler
\* call ends in every way; callers resubmit failed tasks and stop waiting
NextWorker ==
    \/ \E t \in TaskIds : Submit(t, {"p1"}, {AllProxyIds[1]}, Priorities, BOOLEAN, BOOLEAN)
    \/ \E t \in TaskIds : Resubmit(t)
    \/ \E t \in TaskIds : CallerCancel(t)
    \/ \E c \in ClusterIds : WorkerGet(c)
    \/ \E c \in ClusterIds, o \in Outcomes : HandlerReturn(c, o)
    \/ \E c \in ClusterIds : WorkerWake(c)
    \/ Tick

SpecWorker == Init /\ [][NextWorker]_vars

\* the manager's assignments: every owner is assigned, with and without a
\* proxy, and lists of owners are reassigned, in any order
NextAssign ==
    \/ \E p \in ProfileIds, a \in ClusterKeys : AssignProfile(p, a)
    \/ \E ids \in BulkProfileIds, r \in ProxyIds : AssignProfilesToProxy(ids, r)

SpecAssign == Init /\ [][NextAssign]_vars

\* the manager's submissions: the tasks of an owner that is assigned and
\* reassigned and of an owner that is never assigned carry any proxy_id, the
\* workers run them
NextRoute ==
    \/ \E a \in ClusterKeys : AssignProfile("p1", a)
    \/ \E r \in ProxyIds : AssignProfilesToProxy(<<"p1">>, r)
    \/ \E t \in TaskIds :
          Submit(t, {"p1", "p2"}, TaskProxyIds, {NORMAL}, {FALSE}, {TRUE})
    \/ \E c \in ClusterIds : WorkerGet(c)
    \/ \E c \in ClusterIds : HandlerReturn(c, "success")
    \/ \E c \in ClusterIds : WorkerWake(c)
    \/ Tick

SpecRoute == Init /\ [][NextRoute]_vars

\* callers that use execute_task, with and without a timeout: the task's
\* proxy_id may be unset (submit_task rejects it), its action may have no
\* handler, the handler call ends in every way or does not return
NextCall ==
    \/ \E t \in TaskIds, x \in Timeouts :
          ExecuteTask(t, {AllProxyIds[1], "unset"}, BOOLEAN, x)
    \/ \E t \in TaskIds : ExecuteEnd(t)
    \/ \E t \in TaskIds : ExecuteTimeout(t)
    \/ \E c \in ClusterIds : WorkerGet(c)
    \/ \E c \in ClusterIds, o \in Outcomes : HandlerReturn(c, o)
    \/ \E c \in ClusterIds : WorkerWake(c)
    \/ Tick

SpecCall == Init /\ [][NextCall]_vars

\* one proxy, its Cluster and shutdown: the tasks differ in priority, in
\* whether proxy_id is set and in whether their action has a handler; callers
\* resubmit failed tasks and stop waiting
NextStop ==
    \/ \E t \in TaskIds :
          Submit(t, {"p1"}, {AllProxyIds[1], "unset"}, Priorities, {FALSE}, BOOLEAN)
    \/ \E t \in TaskIds : Resubmit(t)
    \/ \E t \in TaskIds : CallerCancel(t)
    \/ \E c \in ClusterIds : WorkerGet(c)
    \/ \E c \in ClusterIds, o \in {"success", "generic"} : HandlerReturn(c, o)
    \/ \E c \in ClusterIds : WorkerWake(c)
    \/ ShutdownStart
    \/ \E c \in ClusterIds : StopBegin(c)
    \/ \E c \in ClusterIds : StopWorkerDone(c)
    \/ \E c \in ClusterIds : StopTimeout(c)
    \/ ShutdownFinish
    \/ Tick

SpecStop == Init /\ [][NextStop]_vars

(***************************************************************************)
(* Properties                                                              *)
(***************************************************************************)
\* the ordering key of a task: (priority ordinal, creation time)
KeyLe(a, b) ==
    \/ task[a].priority < task[b].priority
    \/ task[a].priority = task[b].priority /\ CreatedAt(a) <= CreatedAt(b)

\* the tasks whose handle is unresolved and that nothing holds any more:
\* neither a queue nor a worker inside a handler call
Dropped ==
    {t \in TaskIds :
        /\ task[t].future = "pending"
        /\ \A c \in ClusterIds :
              /\ t \notin Items(cluster[c].queue)
              /\ ~(cluster[c].worker = "handler" /\ cluster[c].wtask = t)}

\* C1: for every resource, at most one task of that resource is inside
\* handler execution at any instant: two workers that are both inside a handler
\* call belong to Clusters of different proxy ids.
C1_OneTaskInHandlerPerResource ==
    \A c1, c2 \in ClusterIds :
        (/\ cluster[c1].worker = "handler"
         /\ cluster[c2].worker = "handler"
         /\ cluster[c1].proxy_id = cluster[c2].proxy_id) => c1 = c2

\* C2: no accepted task is left forever with an unresolved handle: a task
\* whose handle is unresolved is still in a queue or in the hands of a worker
\* that is inside its handler call (the worker runs, handlers return).
C2_UnresolvedTaskIsHeld == Dropped = {}

\* C3: a task's completion handle is created at most once and no step sets a
\* result or an error on a handle that is already done.
C3_HandleCreatedAndResolvedOnce ==
    \A t \in TaskIds : task[t].futures <= 1 /\ ~task[t].invalid

\* a task submitted twice whose first handle was rejected and whose handler
\* then succeeded: every resolving step found the handle done
C3_ResubmittedTaskCompleted ==
    \E t \in TaskIds :
        /\ task[t].submits = 2
        /\ task[t].status = "completed"
        /\ task[t].future = "exception"

\* C4: after shutdown() returns, every handle that was pending when shutdown
\* began is resolved and no worker of a Cluster it stopped is still running.
C4_ShutdownResolvesPendingHandles ==
    (shutdown.count > 0 /\ shutdown.pc = "idle") =>
        /\ \A t \in shutdown.pending : task[t].future # "pending"
        /\ \A c \in shutdown.stopping : ~WorkerAlive(cluster[c])

\* C5: whenever the worker takes a task for execution, that task has the
\* smallest (priority ordinal, creation time) key among the tasks that were in
\* the queue at that moment.
C5_WorkerTakesSmallestKey ==
    [][\A c \in ClusterIds :
          (cluster[c].worker = "get" /\ cluster'[c].worker = "handler") =>
              \A u \in Items(cluster[c].queue) \ {STOP_TASK} :
                  KeyLe(cluster'[c].wtask, u)]_vars

\* C6: a task with unmet dependencies is never dispatched to a handler before
\* the tasks it depends on have completed, and when it is taken from the queue
\* it is put back: a registered task whose dependencies are not all completed
\* is in the heap.
C6_UnmetDependenciesStayQueued ==
    /\ pexec.pc = "handler" =>
           CanExecute(ptask[pexec.task], pexec.completed_tasks)
    /\ \A t \in PTaskIds :
           (/\ ptask[t].made
            /\ t \in pq.registry
            /\ ~CanExecute(ptask[t], pexec.completed_tasks)) => t \in Items(pq.heap)

\* the task the worker of Cluster c pops next
NextItem(c) == HeapPop(task, cluster[c].queue).item

\* C7: while rate_limit_until lies in the future no non-bypass task enters
\* handler execution; a non-bypass task popped in that time is put back and the
\* worker sleeps min(time remaining, RATE_LIMIT_RECHECK_DELAY); the delay
\* applied after a non-bypass task is at least the time remaining until
\* rate_limit_until.
C7_RateLimitHoldsBackTasks ==
    [][\A c \in ClusterIds :
          /\ (/\ cluster[c].worker = "get"
              /\ cluster'[c].worker = "handler"
              /\ ~task[cluster'[c].wtask].bypass)
                 => ~HasActiveRateLimit(state[c], Now)
          /\ (/\ cluster[c].worker = "get"
              /\ cluster'[c].worker \notin {"get", "cancelled"}
              /\ ~HeapPop(task, cluster[c].queue).err
              /\ NextItem(c) # STOP_TASK
              /\ ~task[NextItem(c)].bypass
              /\ HasActiveRateLimit(state[c], Now))
                 => /\ NextItem(c) \in Items(cluster'[c].queue)
                    /\ task'[NextItem(c)].attempts = task[NextItem(c)].attempts
                    /\ cluster'[c].worker = "rl_sleep"
                    /\ cluster'[c].wake =
                           Min(state[c].rate_limit_until - Now, RATE_LIMIT_RECHECK_DELAY)
          /\ (/\ cluster[c].worker = "handler"
              /\ cluster'[c].worker = "delay"
              /\ ~task[cluster[c].wtask].bypass
              /\ HasActiveRateLimit(state'[c], Now))
                 => cluster'[c].wake >= state'[c].rate_limit_until - Now]_vars

\* a non-bypass task waits in the queue while rate_limit_until lies in the
\* future and the worker sleeps up to that instant
C7_TaskWaitsForDeadline ==
    \E c \in ClusterIds :
        /\ HasActiveRateLimit(state[c], Now)
        /\ cluster[c].worker = "delay"
        /\ cluster[c].wake >= state[c].rate_limit_until - Now
        /\ \E t \in Items(cluster[c].queue) \ {STOP_TASK} : ~task[t].bypass

\* C8: base_delay * 0.5 <= current_delay <= MAX_DELAY in every state.
C8_DelayWithinLimits ==
    /\ Times(dstate.base_delay, MIN_DELAY_FACTOR) <= dstate.current_delay
    /\ dstate.current_delay <= MAX_DELAY

\* a success that would take current_delay under the lower limit leaves it there
C8_LowerLimitHolds ==
    /\ dlast.op = "record"
    /\ dlast.outcome = "success"
    /\ ~dlast.bypass
    /\ Times(dlast.delay, DELAY_DECREASE_FACTOR) < Times(dstate.base_delay, MIN_DELAY_FACTOR)
    /\ dstate.current_delay = Times(dstate.base_delay, MIN_DELAY_FACTOR)

\* the state right after the rate-limit failure of a non-bypass task
RateLimitFailureRecorded ==
    dlast.op = "record" /\ IsRateLimitError(dlast.outcome) /\ ~dlast.bypass

\* C9 as stated: after a rate-limit failure of a non-bypass task current_delay
\* is strictly greater than before and rate_limit_until is later than now.
C9_FailureRaisesDelay ==
    RateLimitFailureRecorded =>
        /\ dstate.current_delay > dlast.delay
        /\ dstate.rate_limit_until # NoTime
        /\ dstate.rate_limit_until > Now

\* C9: after a rate-limit failure of a non-bypass task current_delay is
\* strictly greater than before, or it was MAX_DELAY already and stays there;
\* rate_limit_until is later than now.
C9_FailureRaisesDelayUpToMaximum ==
    RateLimitFailureRecorded =>
        /\ \/ dstate.current_delay > dlast.delay
           \/ dlast.delay = MAX_DELAY /\ dstate.current_delay = MAX_DELAY
        /\ dstate.rate_limit_until # NoTime
        /\ dstate.rate_limit_until > Now

\* a rate-limit failure recorded while current_delay was MAX_DELAY
C9_FailureAtMaximum ==
    RateLimitFailureRecorded /\ dlast.delay = MAX_DELAY

\* C10 as stated: every failure whose text holds "429" doubles current_delay up
\* to MAX_DELAY and rate_limit_until is not earlier than it was.
C10_EveryFailureDoubles ==
    (dlast.op = "record" /\ dlast.outcome = "rate") =>
        /\ dstate.current_delay = Min(2 * dlast.delay, MAX_DELAY)
        /\ dstate.rate_limit_until # NoTime
        /\ dstate.rate_limit_until >= dlast.rate_limit_until

\* C10: every such failure of a non-bypass task doubles current_delay up to
\* MAX_DELAY and rate_limit_until is not earlier than it was; such a failure of
\* a bypass task leaves both as they were.
C10_NonBypassFailureDoubles ==
    (dlast.op = "record" /\ dlast.outcome = "rate") =>
        IF dlast.bypass
        THEN /\ dstate.current_delay = dlast.delay
             /\ dstate.rate_limit_until = dlast.rate_limit_until
        ELSE /\ dstate.current_delay = Min(2 * dlast.delay, MAX_DELAY)
             /\ dstate.rate_limit_until # NoTime
             /\ dstate.rate_limit_until >= dlast.rate_limit_until

\* a failure of a non-bypass task whose doubling is cut at MAX_DELAY
C10_DoublingCutAtMaximum ==
    /\ RateLimitFailureRecorded
    /\ dlast.delay < MAX_DELAY
    /\ 2 * dlast.delay > MAX_DELAY
    /\ dstate.current_delay = MAX_DELAY

\* the lower limit of current_delay
MinDelay(s) == Times(s.base_delay, MIN_DELAY_FACTOR)

\* a run of DELAY_DECREASE_THRESHOLD successes recorded one after the other
\* is complete
RunComplete == drun.len = DELAY_DECREASE_THRESHOLD

\* C11 as stated: after every run of 10 consecutive successes current_delay
\* is smaller than before the run, 0.95 times its value but not below
\* base_delay * 0.5.
C11_TenSuccessesDecreaseDelay ==
    RunComplete =>
        /\ dstate.current_delay < drun.delay
        /\ dstate.current_delay =
               Max(Times(drun.delay, DELAY_DECREASE_FACTOR), MinDelay(dstate))

\* C11: after every run of 10 consecutive successes of non-bypass tasks
\* current_delay is max(0.95 * its value before the run, base_delay * 0.5),
\* whatever was recorded before the run: smaller than before unless it was at
\* the lower limit; a run with a bypass task in it leaves current_delay as it
\* was or decreases it that way.
C11_PlainRunDecreasesDelay ==
    RunComplete =>
        /\ dstate.current_delay \in
               {Max(Times(drun.delay, DELAY_DECREASE_FACTOR), MinDelay(dstate))}
               \cup (IF drun.bypass THEN {drun.delay} ELSE {})
        /\ (~drun.bypass /\ drun.delay > MinDelay(dstate))
               => dstate.current_delay < drun.delay

\* a run of 10 successes of non-bypass tasks that began after a failure, at a
\* success_count that is no multiple of 10, has decreased current_delay
C11_RunAfterFailureDecreased ==
    /\ RunComplete
    /\ ~drun.bypass
    /\ dstate.error_count > 0
    /\ dstate.success_count % DELAY_DECREASE_THRESHOLD # 0
    /\ dstate.current_delay < drun.delay

\* the state right after the outcome of a bypass task is recorded
BypassOutcomeRecorded == dlast.op = "record" /\ dlast.bypass

\* C12: recording the outcome of a bypass task leaves current_delay and
\* rate_limit_until as they were; a failure of such a task whose text is of
\* the connection class sets is_healthy to false.
C12_BypassLeavesDelayAndDeadline ==
    BypassOutcomeRecorded =>
        /\ dstate.current_delay = dlast.delay
        /\ dstate.rate_limit_until = dlast.rate_limit_until
        /\ dlast.outcome = "conn" => ~dstate.is_healthy

\* the connection failure of a bypass task is recorded while current_delay is
\* above base_delay and rate_limit_until is set
C12_BypassConnectionFailure ==
    /\ BypassOutcomeRecorded
    /\ dlast.outcome = "conn"
    /\ ~dstate.is_healthy
    /\ dlast.delay > BASE_DELAY
    /\ dlast.rate_limit_until # NoTime
    /\ dstate.current_delay = dlast.delay

\* C14: is_healthy becomes false only when a failure of the connection class
\* is recorded, where a text that also holds a rate-limit keyword is of the
\* rate-limit class and leaves is_healthy true; after the cooldown is_healthy
\* is true again.
C14_UnhealthyOnlyOnConnectionFailure ==
    /\ (dlast.op = "record" /\ dlast.outcome # "conn") => dstate.is_healthy
    /\ dlast.op = "health" => dstate.is_healthy

\* the step of Cluster c records the failure of a non-bypass task whose text
\* is of the rate-limit class
RateLimitFailureStep(c) ==
    /\ cluster[c].worker = "handler"
    /\ cluster'[c].worker = "delay"
    /\ ~task[cluster[c].wtask].bypass
    /\ state'[c].error_count = state[c].error_count + 1
    /\ state'[c].current_delay =
           Min(Times(state[c].current_delay, DELAY_INCREASE_RATE_LIMIT), MAX_DELAY)
    /\ state'[c].rate_limit_until = Now + state'[c].current_delay
    /\ state'[c].is_healthy = state[c].is_healthy

\* only time passes for Cluster c: rate_limit_until is the same instant, the
\* time left until it is shorter
TimePassesFor(c) ==
    /\ state[c].rate_limit_until # NoTime
    /\ state'[c].rate_limit_until # NoTime
    /\ state'[c].rate_limit_until < state[c].rate_limit_until
    /\ state'[c] = [state[c] EXCEPT !.rate_limit_until = state'[c].rate_limit_until]
    /\ UNCHANGED <<clusters, profile_to_proxy, nclusters, task, shutdown, mlast, ecall, wlast>>

\* C13: rate_limit_until changes only in a step that records a failure of the
\* rate-limit class: no success, no other failure, no submit, no assignment and
\* no step of stop or shutdown sets or clears it.
C13_DeadlineSetOnlyByRateLimitFailure ==
    [][\A c \in ClusterIds :
          state'[c].rate_limit_until # state[c].rate_limit_until
              => RateLimitFailureStep(c) \/ TimePassesFor(c)]_vars

\* a Cluster that has recorded a success and failures, has an owner and was
\* stopped still has the rate_limit_until a rate-limit failure gave it
C13_DeadlineKeptThroughStop ==
    \E c \in ClusterIds :
        /\ state[c].rate_limit_until # NoTime
        /\ state[c].success_count > 0
        /\ state[c].error_count > 0
        /\ state[c].active_profiles # {}
        /\ cluster[c].stop = "done"

\* the owners the owner-to-resource map gives to a proxy, and their number
OwnersOf(a, proxy_id) == {p \in ProfileIds : a[p] = proxy_id}
OwnerCount(a, proxy_id) == Cardinality(OwnersOf(a, proxy_id))

\* the Cluster objects that have profile_id in their owner set
ClustersOf(st, profile_id) == {c \in ClusterIds : profile_id \in st[c].active_profiles}

\* the owners of a list
Listed(profile_ids) == {profile_ids[i] : i \in 1..Len(profile_ids)}

C16_AssignIsIdempotent ==
    [][\A p \in ProfileIds, a \in ClusterKeys :
          AssignProfile(p, a) =>
              /\ mlast'.result # "None"
              /\ mlast'.result = profile_to_proxy'[p]
              /\ profile_to_proxy[p] # "None" =>
                     /\ mlast'.result = profile_to_proxy[p]
                     /\ profile_to_proxy' = profile_to_proxy
                     /\ \A c \in ClusterIds :
                            state'[c].active_profiles = state[c].active_profiles
                     /\ UNCHANGED <<clusters, nclusters, cluster>>]_vars

\* assign_profile was called with another proxy for an owner that had an
\* assignment, and returned the proxy of the assignment
C16_SecondAssignReturnedFirst ==
    /\ mlast.op = "assign"
    /\ mlast.proxy_id \in ProxyIds
    /\ mlast.before[mlast.profile_ids[1]] \in ProxyIds \ {mlast.proxy_id}
    /\ mlast.result = mlast.before[mlast.profile_ids[1]]
    /\ profile_to_proxy = mlast.before

C19_SubmitRoutesByAssignment ==
    [][\A c \in ClusterIds :
          /\ \A t \in TaskIds :
                 (/\ task'[t].submits = task[t].submits + 1
                  /\ t \in Items(cluster'[c].queue))
                     => cluster'[c].proxy_id = profile_to_proxy[task'[t].profile_id]
          /\ (cluster[c].worker = "get" /\ cluster'[c].worker = "handler")
                 => cluster[c].proxy_id =
                        profile_to_proxy[task[cluster'[c].wtask].profile_id]]_vars

\* submit_task cannot resolve a proxy for the task: its owner has no
\* assignment, or the task carries no proxy_id or None
Unresolvable(tr) ==
    \/ profile_to_proxy[tr.profile_id] = "None"
    \/ tr.proxy_id \in {"None", "unset"}

\* C20: when submit_task cannot resolve a proxy for the task, the handle it
\* returns is rejected with an error, the task is in no queue and no Cluster
\* was created.
C20_UnresolvableSubmitIsRejected ==
    [][\A t \in TaskIds :
          (task'[t].submits = task[t].submits + 1 /\ Unresolvable(task'[t])) =>
              /\ task'[t].future = "exception"
              /\ \A c \in ClusterIds : t \notin Items(cluster'[c].queue)
              /\ UNCHANGED <<clusters, nclusters>>]_vars

\* C21: an execute_task call that was given a timeout and is waiting for its
\* handle waits under a deadline that is at most the timeout away, so it ends
\* within the timeout whatever the worker and the handler do.
C21_TimeoutBoundsTheWait ==
    \A t \in TaskIds :
        (ecall[t].pc = "waiting" /\ ecall[t].timeout # NoTime) =>
            /\ ecall[t].deadline # NoTime
            /\ ecall[t].deadline <= ecall[t].timeout

\* C22: a proxy has a registered Cluster exactly while at least one owner is
\* assigned to it: none before the first assignment, and none any more once
\* its last owner has been removed.
C22_ClusterExistsWhileOwned ==
    \A r \in ProxyIds :
        clusters[r] # 0 <=> OwnersOf(profile_to_proxy, r) # {}

\* a task that waits in a queue: registered, in the heap, not handed to a
\* handler yet
StillQueued(t) ==
    /\ ptask[t].made
    /\ ptask[t].dispatched = 0
    /\ \/ t \in pq.registry /\ t \in Items(pq.heap)
       \/ t \in uq.registry /\ t \in Items(uq.heap)

\* C23: cancel_task on a task that is still queued returns True, leaves its
\* future cancelled and the task unregistered; a task that is unregistered is
\* never registered again and never handed to a handler; cancel_task on the
\* task whose handler call is in progress leaves that call as it is.
C23_CancelledTaskIsNeverDispatched ==
    [][\A t \in PTaskIds :
          /\ (StillQueued(t) /\ CancelTask(t)) =>
                 /\ ptask'[t].cancel = "true"
                 /\ ptask'[t].future = "cancelled"
                 /\ t \notin pq'.registry \cup uq'.registry
          /\ (ptask[t].made /\ t \notin pq.registry \cup uq.registry) =>
                 /\ t \notin pq'.registry \cup uq'.registry
                 /\ ptask'[t].dispatched = ptask[t].dispatched
          /\ (pexec.pc = "handler" /\ pexec.task = t /\ CancelTask(t)) =>
                 pexec' = pexec]_vars

\* a task without dependencies was cancelled while it was queued, and get has
\* since passed it over and handed a task created after it, of the same
\* priority, to the handler
C23_CancelledTaskPassedOver ==
    \E t, u \in PTaskIds :
        /\ t < u
        /\ ptask[t].cancel = "true"
        /\ ptask[t].future = "cancelled"
        /\ ptask[t].dispatched = 0
        /\ ptask[t].dependencies = {}
        /\ t \in Items(pq.heap)
        /\ ptask[u].priority = ptask[t].priority
        /\ pexec.pc = "handler"
        /\ pexec.task = u

\* the worker of Cluster c can take the next item of its queue and hand it to
\* TaskHandler.execute_task: the item is a task, and neither an active rate
\* limit nor an unhealthy proxy makes _should_skip_task skip it
TakesForExecution(c) ==
    /\ cluster[c].worker = "get"
    /\ cluster[c].queue # <<>>
    /\ ~HeapPop(task, cluster[c].queue).err
    /\ NextItem(c) # STOP_TASK
    /\ ~IsRateLimited(state[c], task[NextItem(c)].bypass, Now)
    /\ state[c].is_healthy

\* C24: when the worker takes a task whose action has no handler for
\* execution, the same step rejects the task's handle with the no-handler
\* error if it was open, starts no handler call for it (the task is not
\* marked started), and leaves the worker in the delay after a task, from
\* which it goes on to the next task after at most MAX_DELAY.
C24_MissingHandlerFailsTask ==
    [][\A c \in ClusterIds :
          (/\ TakesForExecution(c)
           /\ ~task[NextItem(c)].has_handler
           /\ WorkerGet(c))
              => /\ FutureOpen(task[NextItem(c)]) =>
                        /\ task'[NextItem(c)].future = "exception"
                        /\ task'[NextItem(c)].error = "no_handler"
                 /\ ~FutureOpen(task'[NextItem(c)])
                 /\ task'[NextItem(c)].attempts = task[NextItem(c)].attempts
                 /\ task'[NextItem(c)].status = task[NextItem(c)].status
                 /\ cluster'[c].worker = "delay"
                 /\ cluster'[c].wtask = 0
                 /\ cluster'[c].wake \in 0..MAX_DELAY
                 /\ NextItem(c) \notin Items(cluster'[c].queue)]_vars

\* a task without a handler had its handle rejected with the no-handler error
\* and was never started, and the worker has since handed another task to
\* its handler
C24_NextTaskRunsAfterMissingHandler ==
    \E c \in ClusterIds, t \in TaskIds :
        /\ ~task[t].has_handler
        /\ task[t].future = "exception"
        /\ task[t].error = "no_handler"
        /\ task[t].attempts = 0
        /\ cluster[c].worker = "handler"
        /\ cluster[c].wtask # t
        /\ task[cluster[c].wtask].has_handler

\* the number of entries of task t in the queues of the Clusters cl[1..n]
RECURSIVE QueuedTimes(_, _, _)
QueuedTimes(cl, n, t) ==
    IF n = 0 THEN 0
    ELSE QueuedTimes(cl, n - 1, t)
             + Cardinality({i \in 1..Len(cl[n].queue) : cl[n].queue[i] = t})

C26_LoopSurvivesItsOwnErrors ==
    [][\A c \in ClusterIds :
          /\ cluster'[c].worker # "none" => WorkerAlive(cluster'[c])
          /\ (cluster[c].worker # "err_sleep" /\ cluster'[c].worker = "err_sleep")
                 => cluster'[c].wake = Now + WORKER_ERROR_PAUSE
          /\ (cluster[c].worker = "err_sleep" /\ cluster'[c].worker # "err_sleep")
                 => /\ cluster'[c].worker = "get"
                    /\ Items(cluster[c].queue) \subseteq Items(cluster'[c].queue)]_vars

\* the loop raised an error of its own, the pause that follows is over and a
\* task is waiting in the queue for the worker
C26_WorkerPausesAfterError ==
    \E c \in ClusterIds :
        /\ cluster[c].worker = "err_sleep"
        /\ cluster[c].wake = 0
        /\ Items(cluster[c].queue) \cap TaskIds # {}

\* C27: every write to a ProxyClusterState is made by the code of the Cluster
\* that owns the state, while that code holds the Cluster's own lock.
C27_StateWrittenUnderClusterLock ==
    \A w \in wlast : w.by = "cluster" /\ w.lock = "cluster"

\* C28: the delay get_delay_for_profile returned for a CRITICAL task is at most
\* GOV_CRITICAL_MAX_DELAY (0.5 s), whatever the proxy's delays, the number of
\* its profiles, the multiplier, the spacing and max_delay were.
C28_CriticalDelayIsCapped ==
    gov.call.priority = CRITICAL => gov.call.delay <= GOV_CRITICAL_MAX_DELAY

\* a CRITICAL task asked for its delay on a proxy whose fair share, multiplied
\* and spaced, came to more than the cap under a max_delay that allows more,
\* and the cap was returned
C28_CriticalDelayCutToCap ==
    /\ gov.call.priority = CRITICAL
    /\ gov.call.total > GOV_CRITICAL_MAX_DELAY
    /\ gov.since[CRITICAL] # NoTime
    /\ Cardinality(gov.active_profiles) > 1
    /\ gov.call.delay = GOV_CRITICAL_MAX_DELAY

\* a CRITICAL task of the profile that was added and waits to be dispatched
CriticalWaiting(t) ==
    /\ ptask[t].made
    /\ ptask[t].priority = CRITICAL
    /\ ptask[t].dispatched = 0
    /\ ptask[t].future = "pending"

\* C29: a CRITICAL task goes before a BACKGROUND task added with it: the
\* running executor of the profile takes no BACKGROUND task for execution
\* while a CRITICAL task of the profile waits to be dispatched.
C29_CriticalTaskGoesFirst ==
    [][\A u \in PTaskIds :
          (ExecGet /\ pexec'.task = u /\ ptask[u].priority = BACKGROUND)
              => \A t \in PTaskIds : ~CriticalWaiting(t)]_vars

\* after the step of Cluster c's worker, task t is in the handler call, back in
\* the queue, or its handle is resolved
KeptOrResolved(c, t) ==
    \/ cluster'[c].worker = "handler" /\ cluster'[c].wtask = t
    \/ t \in Items(cluster'[c].queue)
    \/ task'[t].future # "pending"

\* C30: the Cluster worker loses no queued task: a task it removes from the
\* queue is executed, put back in the queue, or has its handle resolved by the
\* end of that pass of the loop, also when the resource is unhealthy or
\* rate-limited at that moment.
C30_PoppedTaskIsNotLost ==
    [][\A c \in ClusterIds :
          WorkerGet(c) =>
              LET pop == HeapPop(task, cluster[c].queue)
              IN  (~pop.err /\ pop.item \in TaskIds /\ task[pop.item].future = "pending")
                      => KeptOrResolved(c, pop.item)]_vars

\* C31: when shutdown() has returned, no queue of a Cluster it stopped holds a
\* task whose handle is unresolved, whenever the task was submitted.
C31_NoTaskStrandedByShutdown ==
    (shutdown.count > 0 /\ shutdown.pc = "idle") =>
        \A c \in shutdown.stopping :
            \A t \in Items(cluster[c].queue) \cap TaskIds : task[t].future # "pending"

\* what a failure of class cls of a non-bypass task leaves of state s: the
\* delay times 2, 1.5 or 1.2 up to MAX_DELAY; the deadline at the new delay
\* from now for a rate-limit text; unhealthy for a connection text without a
\* rate-limit keyword
AfterFailure(s, cls) ==
    LET factor == IF cls \in {"rate", "both"} THEN 20
                  ELSE IF cls = "conn" THEN 15 ELSE 12
        d == IF (s.current_delay * factor) \div 10 > MAX_DELAY THEN MAX_DELAY
             ELSE (s.current_delay * factor) \div 10
    IN  [s EXCEPT !.error_count = s.error_count + 1,
                  !.current_delay = d,
                  !.rate_limit_until = IF cls \in {"rate", "both"} THEN Now + d ELSE @,
                  !.is_healthy = IF cls = "conn" THEN FALSE ELSE @]

C33_ResolvedTaskIsTerminal ==
    \A t \in TaskIds :
        task[t].future \in {"result", "exception", "cancelled"}
            => task[t].status \in {"completed", "failed", "cancelled"}

\* the tasks waiting in queue q that were not cancelled
Waiting(q) == Items(q.heap) \cap q.registry

\* the ordering key of a task of the profile: (priority ordinal, creation time)
PKeyLe(a, b) ==
    \/ ptask[a].priority < ptask[b].priority
    \/ ptask[a].priority = ptask[b].priority /\ CreatedAt(a) <= CreatedAt(b)

\* C34: PriorityTaskQueue.get on the profile's queue returns the lowest-key
\* task among the waiting tasks that can execute, or none when there is no
\* such task, and the waiting tasks afterwards are those before without the
\* task returned.
C34_GetReturnsLowestAndKeepsOthers ==
    pq.heap # <<>> =>
        LET g == QueueGet(pq, ptask)
            executable == {t \in Waiting(pq) : CanExecute(ptask[t], {})}
        IN  /\ Waiting(g.queue) = Waiting(pq) \ {g.selected}
            /\ IF executable = {} THEN g.selected = 0
               ELSE /\ g.selected \in executable
                    /\ \A u \in executable : PKeyLe(g.selected, u)

\* C35: get treats a waiting task as executable when its dependencies are all
\* in the completed set of the profile: whenever such a task waits in the
\* profile's queue, a get that returns normally returns a task.
C35_CompletedDependenciesMakeExecutable ==
    pq.heap # <<>> =>
        LET g == QueueGet(pq, ptask)
        IN  (/\ ~g.err
             /\ \E t \in Waiting(pq) : CanExecute(ptask[t], pexec.completed_tasks))
                => g.selected # 0

\* C36: every operation of the DelayManager returns and releases the lock: no
\* call is left waiting for self._lock, and the lock is free between the
\* operations.
C36_EveryOperationReleasesLock ==
    gov.lock = "free" /\ gov.waiting = {}

\* C37: a task that get has returned to the executor is no longer registered
\* in its queue (qsize counts waiting tasks only), and cancel_task has
\* returned true only for tasks that were never handed to a handler.
C37_RegistryHoldsWaitingTasksOnly ==
    \A t \in PTaskIds :
        /\ ptask[t].dispatched > 0 => t \notin pq.registry
        /\ ptask[t].cancel = "true" => ptask[t].dispatched = 0

\* C38: a task that get_next_task_for_profile returned was returned to the
\* profile that owns it.
C38_NextTaskBelongsToProfile ==
    \A t \in PTaskIds :
        ptask[t].taken_by # "none" => ptask[t].taken_by = ptask[t].profile_id

\* C39: a start_profile_execution that returned False has left the engine as
\* it was before the call: the proxies' profile lists, the queue registered for
\* each profile, the queue each running executor reads, and the counters.
C39_FailedStartChangesNothing ==
    (em.last.op = "start" /\ em.last.result = "False") => em.engine = em.last.before

\* C40: in the per-profile executor each task outcome is recorded exactly once
\* in the DelayManager that has state for the proxy: the end of a handler call
\* with an exception raises error_count by one and leaves success_count, the
\* end with a result raises success_count by one and leaves error_count
C40_EachOutcomeRecordedOnce ==
    [][\A ok \in BOOLEAN :
          (ExecReturn(ok) /\ gov.made)
              => /\ gov'.success_count = gov.success_count + (IF ok THEN 1 ELSE 0)
                 /\ gov'.error_count = gov.error_count + (IF ok THEN 0 ELSE 1)]_vars

=============================================================================
